---- MODULE Spec2Model ----
(***************************************************************************)
(* Verification model of the Thinking backend (peikuo/thinking):           *)
(*   - the provider client registry (backend/utils/model_helpers.py)       *)
(*   - the provider call adapters, streaming and non-streaming             *)
(*     (backend/utils/model_helpers.py, backend/main.py, proxy/src/proxy.py)*)
(*   - the summary endpoints and their fallback chains                     *)
(*     (backend/main.py, backend/routers/chat.py, backend/routers/discuss.py)*)
(***************************************************************************)
EXTENDS Integers, Sequences, FiniteSets, TLC

(***************************************************************************)
(* Bounds of the model                                                     *)
(***************************************************************************)
\* number of AsyncOpenAI clients constructed in one behaviour of SpecClient
MaxClients == 3
\* number of chunks the upstream produces in one stream
MaxChunks == 3
\* number of requests served concurrently
MaxRequests == 3

(***************************************************************************)
(* Providers, credentials, upstream values                                 *)
(***************************************************************************)
\* model_helpers.py:35 ProviderType
Providers == {"openai", "glm", "doubao", "grok", "qwen", "deepseek"}
\* the providers the proxy serves (proxy.py MODEL_CONFIGS)
ProxyProviders == {"openai", "grok"}

\* an absent credential: None and "" are both falsy in `api_key or ...`
NoKey == ""
\* credentials a request can carry in its X-<Provider>-API-Key header
UserKeys == {"user-key-1", "user-key-2"}
\* the credential found in the environment when one is configured
EnvKey == "env-key"

\* an absent text: None and "" are both falsy
NoText == ""

\* a request without body
NoBody == [type |-> "none"]

\* an Optional value is a sequence of length 0 (None) or 1
None == <<>>
Some(v) == <<v>>

VARIABLES
    \* ---- the request being served -------------------------------------
    endpoint,    \* which handler serves the request
    adapter,     \* "helpers" (utils/model_helpers.py), "main" (main.py), "proxy"
    provider,    \* provider of the call in progress
    streaming,   \* request.stream
    language,    \* request.language
    headers,     \* provider -> credential of the X-..-API-Key header, NoKey if absent
    env,         \* provider -> credential in the environment, NoKey if unset
    pc,          \* position of the handler / generator
    key_to_use,  \* the credential resolved for the call in progress
    client,      \* Optional client the call in progress uses
    chunks,      \* upstream chunks consumed so far by the generator
    events,      \* events delivered to the transport so far
    result,      \* Optional outcome of the call: returned value or raised error
    fault,       \* Optional failure that happened inside the stream
    cand,        \* summary chain: index of the candidate being tried
    attempts,    \* summary chain: candidates invoked so far, in order
    errors,      \* summary chain: the failure history (main.py `errors`)
    messages,    \* request.messages as the handler converts them
    previous_model,     \* DiscussRequest.previous_model, NoText if absent
    previous_response,  \* DiscussRequest.previous_response, NoText if absent
    issued,      \* completion requests issued to the provider so far, in order
    lookups,     \* arguments of the get_client calls made for the request, in order
    cause,       \* Optional exception raised by the awaited provider request
    call_result, \* Optional outcome of call_X as its caller sees it
    reported,    \* what the endpoint handlers handed to the error hook and the log, in order
    disconnected,  \* the client of the stream has gone away
    responses,   \* SummaryRequest.responses: provider -> text, for the providers present
    authorization, \* proxy: the Authorization header of the request, NoText if absent
    body,        \* proxy, middleware: the body of the request
    logs,        \* the records written by the request logging, in order
    lang_arg,    \* the language argument of the latest call_X of the handler, NoText before
    thinking_env, \* os.environ["THINKING_ENV"], NoText when unset
    \* ---- concurrent requests on the registry ---------------------------
    requests,    \* request id -> state of the call_X serving it
    \* ---- the provider client registry ---------------------------------
    _clients,    \* model_helpers._clients: provider name -> client
    created,     \* number of AsyncOpenAI clients constructed so far
    lastCall     \* Optional record of the latest get_client call

reqVars == <<endpoint, adapter, provider, streaming, language, headers, env, pc,
             key_to_use, client, chunks, events, result, fault, cand, attempts, errors,
             messages, previous_model, previous_response, issued, lookups, cause,
             call_result, reported, disconnected, responses, authorization, body, logs,
             lang_arg, thinking_env>>
\* the inputs and outputs of a request that its provider call leaves alone
ioVars == <<disconnected, responses, authorization, body, logs, lang_arg, thinking_env>>
regVars == <<_clients, created, lastCall>>
vars == <<endpoint, adapter, provider, streaming, language, headers, env, pc,
          key_to_use, client, chunks, events, result, fault, cand, attempts, errors,
          messages, previous_model, previous_response, issued, lookups, cause,
          call_result, reported, disconnected, responses, authorization, body, logs,
          lang_arg, thinking_env, requests, _clients, created, lastCall>>

\* provider_name.upper()
upper(p) == CASE p = "openai" -> "OPENAI" [] p = "glm" -> "GLM" [] p = "doubao" -> "DOUBAO"
              [] p = "grok" -> "GROK" [] p = "qwen" -> "QWEN" [] p = "deepseek" -> "DEEPSEEK"

\* the provider names main.py writes in its messages
display(p) == CASE p = "openai" -> "OpenAI" [] p = "glm" -> "GLM" [] p = "doubao" -> "Doubao"
                [] p = "grok" -> "Grok" [] p = "qwen" -> "Qwen" [] p = "deepseek" -> "DeepSeek"

(***************************************************************************)
(* env_config.py                                                           *)
(***************************************************************************)
\* get_api_key: os.environ.get("<P>_API_KEY", "")
get_api_key(e, p) == e[p]
\* get_api_url: one base URL per provider
get_api_url(p) == "url:" \o p

(***************************************************************************)
(* Provider client registry: model_helpers.get_client                      *)
(***************************************************************************)
\* (variant: the environment credential wins over the one of the request)
resolve_key_env_first(api_key, e, p) ==
    IF get_api_key(e, p) # NoKey THEN get_api_key(e, p) ELSE api_key

\* `api_key or get_api_key(provider_name)`
resolve_key(api_key, e, p) == IF api_key # NoKey THEN api_key ELSE get_api_key(e, p)

\* AsyncOpenAI(api_key=..., base_url=...): a new object, identified by the
\* number of the construction
AsyncOpenAI(k, url, n) == [api_key |-> k, base_url |-> url, id |-> n]

\* the cache key computed by get_client (never used to store)
client_key(p, k) == p \o ":" \o k

\* (variant: one client per provider, whatever the credential)
must_create_ignoring_key(cache, p, k) ==
    p \notin DOMAIN cache

\* the test that decides whether a new client is constructed; the right
\* operand of `or` is evaluated only when the left one is false

must_create(cache, p, k) ==
    \/ client_key(p, k) \notin DOMAIN cache
    \/ cache[p].api_key # k

\* (variant: a cache of one entry, the client constructed last)
clients_after_single(cache, p, k, n) ==
    IF must_create(cache, p, k)
    THEN [q \in {p} |-> AsyncOpenAI(k, get_api_url(p), n + 1)]
    ELSE cache

\* the cache after get_client(p, api_key) with resolved credential k
clients_after(cache, p, k, n) ==
    IF must_create(cache, p, k)
    THEN [q \in DOMAIN cache \cup {p} |->
             IF q = p THEN AsyncOpenAI(k, get_api_url(p), n + 1) ELSE cache[q]]
    ELSE cache

created_after(cache, p, k, n) == IF must_create(cache, p, k) THEN n + 1 ELSE n

\* the record kept of a get_client call
call_record(cache, n, e, p, api_key) ==
    LET k == resolve_key(api_key, e, p) IN
    IF k = NoKey
    THEN [provider |-> p, api_key |-> api_key, outcome |-> "raised",
          status |-> 500, detail |-> upper(p) \o " API key not configured",
          before |-> IF p \in DOMAIN cache THEN Some(cache[p]) ELSE None,
          client |-> None]
    ELSE [provider |-> p, api_key |-> api_key, outcome |-> "returned",
          status |-> 200, detail |-> "",
          before |-> IF p \in DOMAIN cache THEN Some(cache[p]) ELSE None,
          client |-> Some(clients_after(cache, p, k, n)[p])]

\* get_client(provider_name, api_key) called by any code of the backend
get_client(p, api_key) ==
    LET k == resolve_key(api_key, env, p) IN
    /\ created < MaxClients
    /\ lastCall' = Some(call_record(_clients, created, env, p, api_key))
    /\ IF k = NoKey
       THEN UNCHANGED <<_clients, created>>
       ELSE /\ _clients' = clients_after(_clients, p, k, created)
            /\ created' = created_after(_clients, p, k, created)
    /\ UNCHANGED reqVars
    /\ UNCHANGED requests

(***************************************************************************)
(* Upstream provider: chunks of a stream, completions, failures            *)
(***************************************************************************)
\* a chunk as the adapters look at it: chunk.choices, choices[0].delta,
\* delta.content; delta and content are Optional
chunk_text(t)    == [choices |-> << [delta |-> Some([content |-> Some(t)])] >>]
chunk_nocontent  == [choices |-> << [delta |-> Some([content |-> None])] >>]
chunk_nodelta    == [choices |-> << [delta |-> None] >>]
chunk_nochoices  == [choices |-> << >>]

\* the texts a provider streams
Texts == {"Hello", " world", ""}
Chunks == {chunk_text(t) : t \in Texts} \cup {chunk_nocontent, chunk_nodelta, chunk_nochoices}

\* the full text of the non-streaming completion of provider p
Completions(p) == {"answer of " \o p}

\* exceptions the OpenAI client raises: str(e) is msg
UpstreamErrors ==
    { [kind |-> "Exception", status |-> 401, msg |-> "401 Unauthorized"],
      [kind |-> "TimeoutError", status |-> 0, msg |-> ""] }

\* fastapi.HTTPException(status_code, detail); str(e) is "<status>: <detail>"
HTTPException(status, detail) ==
    [kind |-> "HTTPException", status |-> status, msg |-> ToString(status) \o ": " \o detail,
     detail |-> detail]

(***************************************************************************)
(* Events of a stream (the JSON object after "data: ")                      *)
(***************************************************************************)
\* model_helpers.py and proxy.py
helpers_content(p, c) == [content |-> c, model |-> p]
helpers_done(p)       == [content |-> "", model |-> p, done |-> TRUE]
helpers_error(p, e)   == [content |-> "Error: " \o e.msg, model |-> p, error |-> TRUE]
\* main.py
main_content(p, c)    == [content |-> c, model |-> p]
main_done(p)          == [done |-> TRUE, model |-> p]
main_error(p, e)      == [error |-> e.msg, model |-> p]
\* proxy.py: the chunk itself, dumped
proxy_raw(c)          == c

content_event(a, p, c) == IF a = "helpers" THEN helpers_content(p, c) ELSE main_content(p, c)
done_event(a, p)  == IF a \in {"helpers", "proxy"} THEN helpers_done(p)
                     ELSE IF a = "main" THEN main_done(p) ELSE main_done("summary")
error_event(a, p, e) == IF a \in {"helpers", "proxy"} THEN helpers_error(p, e)
                        ELSE IF a = "main" THEN main_error(p, e) ELSE main_error("summary", e)

IsDone(e)    == "done" \in DOMAIN e
IsError(e)   == "error" \in DOMAIN e
IsContent(e) == ~IsDone(e) /\ ~IsError(e)

(***************************************************************************)
(* What an adapter does with one upstream chunk                            *)
(***************************************************************************)
Truthy(opt) == opt # None /\ opt[1] # ""

\* (variant: a chunk whose content is the empty string yields an event)
helpers_yields_empty(c) ==
    /\ c.choices # <<>>
    /\ c.choices[1].delta # None
    /\ c.choices[1].delta[1].content # None

\* model_helpers.py: hasattr(chunk,'choices') and chunk.choices and
\* hasattr(chunk.choices[0],'delta'), then hasattr(delta,'content') and delta.content
helpers_yields(c) ==
    /\ c.choices # <<>>
    /\ c.choices[1].delta # None
    /\ Truthy(c.choices[1].delta[1].content)

\* (variant: content is tested as stream_llm_response does, `is not None`)
doubao_yields_not_none(c) ==
    /\ c.choices # <<>>
    /\ c.choices[1].delta # None
    /\ c.choices[1].delta[1].content # None

\* model_helpers.call_doubao: chunk.choices and chunk.choices[0].delta and
\* chunk.choices[0].delta.content, without the hasattr tests; the objects of
\* the client have the three attributes, None where the provider sent none
doubao_yields(c) ==
    /\ c.choices # <<>>
    /\ c.choices[1].delta # None
    /\ Truthy(c.choices[1].delta[1].content)

\* main.py: chunk.choices and chunk.choices[0].delta.content; the attribute
\* access fails when delta is None
main_raises(c) == c.choices # <<>> /\ c.choices[1].delta = None
main_yields(c) ==
    /\ c.choices # <<>>
    /\ c.choices[1].delta # None
    /\ Truthy(c.choices[1].delta[1].content)

AttributeError == [kind |-> "Exception", status |-> 0,
                   msg |-> "'NoneType' object has no attribute 'content'"]

\* the events an adapter emits for a chunk it consumed without failing
chunk_events(a, p, c) ==
    IF a = "proxy" THEN << proxy_raw(c) >>
    ELSE IF a = "helpers"
         THEN (IF (IF p = "doubao" THEN doubao_yields(c) ELSE helpers_yields(c))
               THEN << helpers_content(p, c.choices[1].delta[1].content[1]) >> ELSE << >>)
         ELSE (IF main_yields(c)
               THEN << main_content(p, c.choices[1].delta[1].content[1]) >> ELSE << >>)

chunk_raises(a, c) == a = "main" /\ main_raises(c)

\* the environment configurations explored: every provider configured, none
\* configured, only some configured
EnvConfigs ==
    { [p \in Providers |-> EnvKey],
      [p \in Providers |-> NoKey],
      [p \in Providers |-> IF p \in {"openai", "qwen"} THEN EnvKey ELSE NoKey] }

NoHeaders == [p \in Providers |-> NoKey]

IdleRequest ==
    /\ endpoint = "none"
    /\ adapter = "none"
    /\ provider = "none"
    /\ streaming = FALSE
    /\ language = "en"
    /\ headers = NoHeaders
    /\ pc = "idle"
    /\ key_to_use = NoKey
    /\ client = None
    /\ chunks = <<>>
    /\ events = <<>>
    /\ result = None
    /\ fault = None
    /\ cand = 0
    /\ attempts = <<>>
    /\ errors = <<>>
    /\ messages = <<>>
    /\ previous_model = NoText
    /\ previous_response = NoText
    /\ issued = <<>>
    /\ lookups = <<>>
    /\ cause = None
    /\ call_result = None
    /\ reported = <<>>
    /\ disconnected = FALSE
    /\ responses = <<>>
    /\ authorization = NoText
    /\ body = NoBody
    /\ logs = <<>>
    /\ lang_arg = NoText

\* no request is served concurrently
NoRequests == requests = <<>>

EmptyRegistry ==
    /\ _clients = <<>>
    /\ created = 0
    /\ lastCall = None

InitClient ==
    /\ thinking_env = NoText
    /\ IdleRequest
    /\ NoRequests
    /\ env \in EnvConfigs
    /\ EmptyRegistry

NextClient ==
    \E p \in Providers, api_key \in UserKeys \cup {NoKey} : get_client(p, api_key)

\* any sequence of get_client calls on the shared registry
SpecClient == InitClient /\ [][NextClient]_vars

(***************************************************************************)
(* Concurrent requests: the tasks of the event loop run from one await to  *)
(* the next; chat_X awaits call_X, which runs to the first await of its    *)
(* provider request (non-streaming) or returns its streaming response,     *)
(* whose generator runs when the transport consumes it                     *)
(***************************************************************************)
\* the providers the concurrent requests address
ConcProviders == {"deepseek", "qwen"}

\* (variant: the registry keeps the client it has for the provider)
registry_after_if_absent(cache, p, k, n) ==
    IF p \in DOMAIN cache THEN cache
    ELSE [q \in DOMAIN cache \cup {p} |->
             IF q = p THEN AsyncOpenAI(k, get_api_url(p), n + 1) ELSE cache[q]]

\* the registry after get_client(p, .) resolved the credential k
registry_after(cache, p, k, n) == clients_after(cache, p, k, n)

\* the state of a request served by model_helpers.call_X
served(p, api_key, s, k, pos, c, n) ==
    [provider |-> p, api_key |-> api_key, streaming |-> s, key_to_use |-> k,
     pc |-> pos, client |-> c, accepted_at |-> n]

\* chat_X accepts a request and awaits call_X(messages, api_key, s): in
\* streaming mode the credential is resolved and the streaming response is
\* returned; otherwise get_llm_response gets its client and awaits the request
ConcAccept(p, api_key, s) ==
    LET k == resolve_key(api_key, env, p) IN
    /\ Len(requests) < MaxRequests
    /\ IF s
       THEN /\ requests' = Append(requests, served(p, api_key, s, k, "gen_start", None, created))
            /\ UNCHANGED regVars
       ELSE /\ lastCall' = Some(call_record(_clients, created, env, p, api_key))
            /\ IF k = NoKey
               THEN /\ requests' = Append(requests,
                                      served(p, api_key, s, k, "raised", None, created))
                    /\ UNCHANGED <<_clients, created>>
               ELSE /\ _clients' = registry_after(_clients, p, k, created)
                    /\ created' = created_after(_clients, p, k, created)
                    /\ requests' = Append(requests,
                                      served(p, api_key, s, k, "awaiting",
                                             Some(registry_after(_clients, p, k, created)[p]),
                                             created))
    /\ UNCHANGED reqVars

\* the transport consumes the stream of request r: stream_response_generator
\* gets its client with the credential resolved at call time and awaits the
\* streaming request
ConcGenStart(r) ==
    /\ r \in 1..Len(requests)
    /\ requests[r].pc = "gen_start"
    /\ LET q == requests[r] IN
       /\ lastCall' = Some(call_record(_clients, created, env, q.provider, q.key_to_use))
       /\ IF q.key_to_use = NoKey
          THEN /\ requests' = [requests EXCEPT ![r].pc = "erroring"]
               /\ UNCHANGED <<_clients, created>>
          ELSE /\ _clients' = registry_after(_clients, q.provider, q.key_to_use, created)
               /\ created' = created_after(_clients, q.provider, q.key_to_use, created)
               /\ requests' = [requests EXCEPT
                      ![r].pc = "connecting",
                      ![r].client = Some(registry_after(_clients, q.provider,
                                                        q.key_to_use, created)[q.provider])]
    /\ UNCHANGED reqVars

InitConcurrent ==
    /\ thinking_env = NoText
    /\ IdleRequest
    /\ NoRequests
    /\ EmptyRegistry
    /\ env \in EnvConfigs

NextConcurrent ==
    \/ \E p \in ConcProviders, api_key \in UserKeys \cup {NoKey}, s \in BOOLEAN :
           ConcAccept(p, api_key, s)
    \/ \E r \in 1..MaxRequests : ConcGenStart(r)

\* requests served concurrently on the shared registry, each up to the await
\* of its provider request
SpecConcurrent == InitConcurrent /\ [][NextConcurrent]_vars

(***************************************************************************)
(* Error handling layers                                                   *)
(***************************************************************************)
\* (variant: the decorator raises an error that does not quote the exception)
api_error_handler_opaque(p, e) == HTTPException(500, upper(p) \o " API error")

\* model_helpers.api_error_handler: what the decorator raises for an
\* exception e raised by the decorated function
api_error_handler(p, e) ==
    IF e.kind = "HTTPStatusError"
    THEN HTTPException(e.status, upper(p) \o " API HTTP error: " \o e.msg)
    ELSE IF e.kind = "RequestError"
    THEN HTTPException(503, upper(p) \o " API connection error: " \o e.msg)
    ELSE IF e.kind = "JSONDecodeError"
    THEN HTTPException(500, upper(p) \o " API returned invalid JSON: " \o e.msg)
    ELSE HTTPException(500, upper(p) \o " API error: " \o e.msg)

\* main.py call_X: the except clauses around the provider request
main_except(p, e) ==
    IF e.kind = "TimeoutError"
    THEN HTTPException(504, "Request to " \o display(p) \o " API timed out. Please try again later.")
    ELSE HTTPException(500, display(p) \o " API error: " \o e.msg)

\* the endpoint handlers: except Exception as e: raise HTTPException(500, str(e))
endpoint_except(e) == HTTPException(500, e.msg)

\* model_helpers.get_llm_response failing under get_X_response and call_X,
\* both decorated with api_error_handler
helpers_raise(p, e) == api_error_handler(p, api_error_handler(p, e))

\* the error get_client raises when no credential is resolvable
key_not_configured(p) == HTTPException(500, upper(p) \o " API key not configured")

Returned(v) == Some([kind |-> "returned", value |-> v])
Raised(e)   == Some([kind |-> "raised", error |-> e])

(***************************************************************************)
(* Summary fallback chains                                                 *)
(***************************************************************************)
\* (variant: the first fallback of main.py is tried first)
candidates_openai_first(ep, lang) ==
    IF ep = "main_summary" THEN <<"openai", "deepseek", "qwen">>
    ELSE IF ep = "chat_summary" THEN (IF lang = "zh" THEN <<"qwen">> ELSE <<"openai">>)
    ELSE IF ep = "discuss_summary"
    THEN (IF lang = "zh" THEN <<"deepseek", "qwen">> ELSE <<"qwen", "deepseek">>)
    ELSE << >>

\* the candidates of a summary endpoint, in the order the code tries them
candidates(ep, lang) ==
    IF ep = "main_summary" THEN <<"deepseek", "openai", "qwen">>
    ELSE IF ep = "chat_summary" THEN (IF lang = "zh" THEN <<"qwen">> ELSE <<"openai">>)
    ELSE IF ep = "discuss_summary"
    THEN (IF lang = "zh" THEN <<"deepseek", "qwen">> ELSE <<"qwen", "deepseek">>)
    ELSE << >>

\* main.generate_summary: the entry recorded for a failed candidate
error_entry(p, e) == [model |-> p, error |-> e.detail, status |-> e.status]
missing_entry(p)  == [model |-> p, error |-> "API key not configured", status |-> 500]

\* main.generate_summary: the candidates whose missing credential is recorded
\* (the third candidate has no else branch)
records_missing(i) == i < 3

\* main.generate_summary: the third candidate is called without stream
candidate_streams(ep, i, s) == IF ep = "main_summary" /\ i = 3 THEN FALSE ELSE s

\* the error raised when every candidate of main.generate_summary failed
aggregate_error(errs) ==
    [kind |-> "HTTPException", status |-> 500,
     msg |-> "500: Failed to generate summary with any available model.",
     detail |-> "Failed to generate summary with any available model.",
     errors |-> errs]

\* main.py summary: except Exception as e: raise HTTPException(500, str(e));
\* str(e) prints the detail of e, the failure history included
summary_except(e) ==
    [kind |-> "HTTPException", status |-> 500, msg |-> "500: " \o e.msg,
     detail |-> e.msg, errors |-> e.errors]

SummaryEndpoints == {"main_summary", "chat_summary", "discuss_summary"}
DirectEndpoints  == {"chat", "discuss", "main_chat"}
Endpoints == DirectEndpoints \cup SummaryEndpoints \cup {"proxy"}

(***************************************************************************)
(* Conversations and their composition                                     *)
(***************************************************************************)
\* models.Message
Msg(role, content) == [role |-> role, content |-> content]

\* model_prompts.get_model_prompt: the prompt of the provider in the language,
\* the English one for any other language
get_model_prompt(p, lang) ==
    "prompt of " \o p \o " in " \o (IF lang \in {"en", "zh"} THEN lang ELSE "en")

\* any(msg.get("role") == "system" for msg in messages)
has_system(msgs) == \E i \in 1..Len(msgs) : msgs[i].role = "system"

\* main.call_qwen: the conversation flattened into one prompt text; a system
\* message equal to the first message is skipped
RECURSIVE qwen_lines(_, _)
qwen_lines(msgs, first) ==
    IF msgs = <<>> THEN ""
    ELSE LET m == Head(msgs)
             line == IF m.role = "user" THEN "Human: " \o m.content \o "\n"
                     ELSE IF m.role = "assistant" THEN "Assistant: " \o m.content \o "\n"
                     ELSE IF m.role = "system" /\ m # first
                     THEN "System: " \o m.content \o "\n"
                     ELSE ""
         IN line \o qwen_lines(Tail(msgs), first)

qwen_prompt(lang, msgs) ==
    "System: " \o get_model_prompt("qwen", lang) \o "\n"
        \o (IF msgs = <<>> THEN "" ELSE qwen_lines(msgs, msgs[1]))
        \o "Assistant: "

\* main.py call_X: the messages of the completion request for the caller's
\* conversation: call_grok always prepends the prompt, call_qwen sends one user
\* message, the others prepend unless some message has the role system
main_messages(p, lang, msgs) ==
    IF p = "grok" THEN << Msg("system", get_model_prompt(p, lang)) >> \o msgs
    ELSE IF p = "qwen" THEN << Msg("user", qwen_prompt(lang, msgs)) >>
    ELSE IF has_system(msgs) THEN msgs
    ELSE << Msg("system", get_model_prompt(p, lang)) >> \o msgs

\* (variant: model_helpers.call_X prepends the provider prompt)
request_messages_prompted(a, p, lang, msgs) ==
    << Msg("system", get_model_prompt(p, lang)) >> \o msgs

\* the messages call_X of adapter a puts in its completion request:
\* model_helpers.py and proxy.py pass the conversation they were given
request_messages(a, p, lang, msgs) ==
    IF a = "main" THEN main_messages(p, lang, msgs) ELSE msgs

\* discuss.format_discuss_messages: the parts of the system message
discuss_base(lang, model_name) ==
    IF lang = "zh" THEN "[zh] You are the " \o model_name \o " model. [expert]"
    ELSE "You are the " \o model_name \o " model. You are a thoughtful, analytical expert."

PreviousMarker(lang) ==
    IF lang = "zh" THEN " [zh] has already answered. Their response was:"
    ELSE " has already answered this question. Their response was:"

discuss_previous(lang, pm, pr) ==
    "\n\n" \o pm \o PreviousMarker(lang) \o "\n\n\"\"\"" \o pr \o "\"\"\"\n\n"

discuss_critique_steps(lang) ==
    (IF lang = "zh" THEN "[zh] " ELSE "")
        \o "Please follow these steps in your response: 1. Analyze the previous response "
        \o "2. Provide your perspective 3. Deepen the analysis 4. Present my solution "
        \o "5. Summarize key points"

discuss_first_steps(lang) ==
    (IF lang = "zh" THEN "\n\n[zh] " ELSE "\n\n")
        \o "Please follow these steps to answer the user's question: 1. Understand the "
        \o "question fully 2. Provide in-depth analysis 3. Reference relevant knowledge "
        \o "4. Present my solution 5. Summarize key insights"

\* (variant: a system message the conversation starts with is replaced)
format_discuss_messages_replacing(msgs, model_name, pm, pr, lang) ==
    LET system_content ==
            IF pr # NoText /\ pm # NoText
            THEN discuss_base(lang, model_name) \o discuss_previous(lang, pm, pr)
                     \o discuss_critique_steps(lang)
            ELSE discuss_base(lang, model_name) \o discuss_first_steps(lang)
    IN << Msg("system", system_content) >>
           \o (IF msgs # <<>> /\ msgs[1].role = "system" THEN Tail(msgs) ELSE msgs)

\* (variant: the system message never quotes a previous answer)
format_discuss_messages_fresh(msgs, model_name, pm, pr, lang) ==
    << Msg("system", discuss_base(lang, model_name) \o discuss_first_steps(lang)) >> \o msgs

\* discuss.format_discuss_messages; `previous_response and previous_model`
format_discuss_messages(msgs, model_name, pm, pr, lang) ==
    LET system_content ==
            IF pr # NoText /\ pm # NoText
            THEN discuss_base(lang, model_name) \o discuss_previous(lang, pm, pr)
                     \o discuss_critique_steps(lang)
            ELSE discuss_base(lang, model_name) \o discuss_first_steps(lang)
    IN << Msg("system", system_content) >> \o msgs

\* SummaryRequest.question / user_prompt of the summary requests explored
Question == "Why is the sky blue?"

\* dict.get(name, default) on a mapping kept as the sequence of its items
dict_get(items, name, default) ==
    IF \E i \in 1..Len(items) : items[i][1] = name
    THEN items[CHOOSE i \in 1..Len(items) : items[i][1] = name][2]
    ELSE default

\* model_prompts.get_summary_prompt: the text for a missing response
\* ("Wu huiying" stands for the Chinese text)
no_response_text(lang) == IF lang = "en" THEN "No response" ELSE "Wu huiying"

\* model_prompts.get_summary_prompt: responses.get(name, no_response_text)
\* for the six names
model_responses(items, lang) ==
    [p \in Providers |-> dict_get(items, p, no_response_text(lang))]

\* model_prompts.get_summary_prompt: the template selected for the language
prompt_key(lang) == IF lang = "zh" THEN "zh_doubao_glm" ELSE "en_openai_grok"

\* model_prompts.SUMMARY_PROMPTS[key].format(question=..., openai_response=...,
\* ...): each template names four of the six responses ("[zh]" marks the
\* Chinese text)
SUMMARY_PROMPTS(key, q, r) ==
    IF key = "zh_doubao_glm"
    THEN "\n[zh] Analyze and summarize the responses from four different AI models "
             \o "to the following question:\n\n[zh] Question: " \o q
             \o "\n\n[zh] Here are the responses:"
             \o "\n\nDeepSeek: " \o r["deepseek"]
             \o "\n\nQwen: " \o r["qwen"]
             \o "\n\nDoubao: " \o r["doubao"]
             \o "\n\nGLM: " \o r["glm"]
             \o "\n\n[zh] Provide a factual, objective summary\n"
    ELSE "\nAnalyze and summarize the responses from four different AI models "
             \o "to the following question:\n\nQuestion: " \o q
             \o "\n\nHere are the responses:"
             \o "\n\nOpenAI: " \o r["openai"]
             \o "\n\nGrok: " \o r["grok"]
             \o "\n\nQwen: " \o r["qwen"]
             \o "\n\nDeepSeek: " \o r["deepseek"]
             \o "\n\nProvide a factual, objective summary\n"

\* model_prompts.get_summary_prompt (used by main.py)
get_summary_prompt(q, items, lang) ==
    SUMMARY_PROMPTS(prompt_key(lang), q, model_responses(items, lang))

\* summary_prompts.get_summary_prompt (used by model_helpers.generate_summary):
\* one entry per item of the mapping
RECURSIVE table_entries(_)
table_entries(items) ==
    IF items = <<>> THEN ""
    ELSE "\n---\n" \o upper(Head(items)[1]) \o ":\n" \o Head(items)[2] \o "\n"
             \o table_entries(Tail(items))

table_summary_prompt(q, items, lang) ==
    (IF lang = "zh" THEN "[zh] I need you to create a table comparing AI responses\n\n[zh] QUESTION: "
     ELSE "I need you to create a table comparing AI responses to this question:\n\nQUESTION: ")
        \o q \o "\n\n"
        \o (IF lang = "zh" THEN "[zh] Here are the model responses to compare:"
            ELSE "Here are the model responses to compare:")
        \o "\n\n" \o table_entries(items)

\* discuss.format_summary_messages: one entry per item of the mapping
RECURSIVE all_responses(_)
all_responses(items) ==
    IF items = <<>> THEN ""
    ELSE "\n\n" \o upper(Head(items)[1]) \o " RESPONSE:\n" \o Head(items)[2]
             \o all_responses(Tail(items))

format_summary_messages(q, items, lang) ==
    << Msg("system", IF lang = "zh" THEN "[zh] You are a professional summarization expert."
                     ELSE "You are a professional summarization expert."),
       Msg("user", (IF lang = "zh" THEN "[zh] User question: " ELSE "User question: ")
                       \o q
                       \o (IF lang = "zh" THEN "\n\n[zh] Responses:" ELSE "\n\nResponses:")
                       \o all_responses(items)) >>

\* the conversation a summary handler composes for the responses of its request
summary_messages(ep, lang) ==
    IF ep = "main_summary"
    THEN << Msg("user", get_summary_prompt(Question, responses, lang)) >>
    ELSE IF ep = "chat_summary"
    THEN << Msg("system", "You are a helpful AI assistant tasked with comparing responses"),
            Msg("user", table_summary_prompt(Question, responses, lang)) >>
    ELSE format_summary_messages(Question, responses, lang)

\* the first and the last code point of the range detect_language counts
CJK_FIRST == 19968
CJK_LAST == 40959

\* the code point of a character of the texts explored: "#" and "@" stand
\* for U+4E00 and U+9FFF, "(" and ")" for their neighbours U+4DFF and U+A000,
\* "~" for U+3042 (kana); the others are ASCII
ord(c) ==
    CASE c = "#" -> 19968
      [] c = "@" -> 40959
      [] c = "(" -> 19967
      [] c = ")" -> 40960
      [] c = "~" -> 12354
      [] OTHER -> 97

\* (variant: a text with exactly one tenth of counted characters is "zh")
detect_language_inclusive(text) ==
    LET chinese_chars == Cardinality({i \in 1..Len(text) :
                             CJK_FIRST <= ord(SubSeq(text, i, i))
                                 /\ ord(SubSeq(text, i, i)) <= CJK_LAST})
        length == IF Len(text) > 1 THEN Len(text) ELSE 1 IN
    IF 10 * chinese_chars >= length THEN "zh" ELSE "en"

\* language_utils.detect_language: chinese_chars / max(len(text), 1) > 0.1;
\* the quotient is the double nearest to the ratio and 0.1 the double nearest
\* to one tenth, so the test is that of the exact ratio
detect_language(text) ==
    LET chinese_chars == Cardinality({i \in 1..Len(text) :
                             CJK_FIRST <= ord(SubSeq(text, i, i))
                                 /\ ord(SubSeq(text, i, i)) <= CJK_LAST})
        length == IF Len(text) > 1 THEN Len(text) ELSE 1 IN
    IF 10 * chinese_chars > length THEN "zh" ELSE "en"

\* (variant: the first user message decides)
detect_language_from_messages_first(msgs, default_language) ==
    LET user_messages == SelectSeq(msgs, LAMBDA m : m.role = "user") IN
    IF user_messages # <<>> THEN detect_language(user_messages[1].content)
    ELSE default_language

\* chat.detect_language_from_messages: the language of the last user message
detect_language_from_messages(msgs, default_language) ==
    LET user_messages == SelectSeq(msgs, LAMBDA m : m.role = "user") IN
    IF user_messages # <<>>
    THEN detect_language(user_messages[Len(user_messages)].content)
    ELSE default_language

\* the language call_X is given: the chat handlers of routers/chat.py detect
\* it when the request says "en"; main.generate_summary passes none, and
\* call_X defaults to "en"; the others pass the language of the request
call_language(ep, lang, msgs) ==
    IF ep = "main_summary" THEN "en"
    ELSE IF ep = "chat" /\ lang = "en" THEN detect_language_from_messages(msgs, "en")
    ELSE lang

\* the conversation an endpoint passes to call_X
call_messages(ep, p, lang, msgs, pm, pr) ==
    IF ep = "discuss" THEN format_discuss_messages(msgs, display(p), pm, pr, lang)
    ELSE IF ep \in {"main_summary", "chat_summary", "discuss_summary"}
    THEN summary_messages(ep, lang)
    ELSE msgs

\* client.chat.completions.create(messages=..., stream=...) on client c
completion(c, msgs, s) == [client |-> c, messages |-> msgs, stream |-> s]

\* the object that wraps the generator of a stream
StreamingResponse == [type |-> "StreamingResponse", media_type |-> "text/event-stream"]

\* (variant: the streaming call returns its bare generator)
streaming_value_generator(a) == [type |-> "async_generator"]

\* what call_X returns in streaming mode:
\* StreamingResponse(generator(), media_type="text/event-stream")
streaming_value(a) == StreamingResponse

(***************************************************************************)
(* Calls: what happens between the call of an adapter and its first await  *)
(***************************************************************************)
\* (variant: the helpers adapter resolves its client before it returns the
\* streaming response)
call_raises_eager(a, s, k) == k = NoKey

\* whether call_X raises at call time for the resolved credential k:
\* main.py checks the credential first; model_helpers.py resolves the client
\* at call time only in non-streaming mode (get_llm_response)
call_raises(a, s, k) ==
    IF a = "main" THEN k = NoKey
    ELSE IF a = "helpers" THEN (~s /\ k = NoKey)
    ELSE FALSE

\* the error call_X raises at call time
call_error(a, p) ==
    IF a = "main" THEN HTTPException(500, display(p) \o " API key not configured")
    ELSE helpers_raise(p, key_not_configured(p))

\* what a summary endpoint catches for the error e of its last candidate:
\* model_helpers.generate_summary has wrapped it
summary_caught(ep, e) ==
    IF ep = "chat_summary" THEN HTTPException(500, "Failed to generate summary: " \o e.msg)
    ELSE e

\* what a summary endpoint raises for the error e of its last candidate
summary_raise(ep, e) ==
    IF ep = "chat_summary"
    THEN HTTPException(500, "Summary generation error: "
                \o HTTPException(500, "Failed to generate summary: " \o e.msg).msg)
    ELSE endpoint_except(e)

\* the adapter starts its provider call: registry, client and position after
\* the synchronous part of call_X(messages, api_key, streaming) that did not raise
StartCall(a, p, api_key, s) ==
    LET k == resolve_key(api_key, env, p)
        msgs == request_messages(a, p, call_language(endpoint, language, messages),
                    call_messages(endpoint, p, language, messages,
                                  previous_model, previous_response)) IN
    /\ key_to_use' = k
    /\ pc' = IF s THEN "gen_start" ELSE "awaiting"
    /\ call_result' = IF s THEN Returned(streaming_value(a)) ELSE None
    /\ cause' = None
    /\ IF a = "helpers" /\ ~s
       THEN \* get_llm_response: client = get_client(provider, api_key), then
            \* await client.chat.completions.create(stream=False)
            /\ lastCall' = Some(call_record(_clients, created, env, p, api_key))
            /\ _clients' = clients_after(_clients, p, k, created)
            /\ created' = created_after(_clients, p, k, created)
            /\ client' = Some(clients_after(_clients, p, k, created)[p])
            /\ lookups' = Append(lookups, <<p, api_key>>)
            /\ issued' = Append(issued, completion(clients_after(_clients, p, k, created)[p],
                                               msgs, FALSE))
       ELSE IF a = "helpers"
       THEN \* the generator resolves the client when it is first consumed
            UNCHANGED <<client, _clients, created, lastCall, lookups, issued>>
       ELSE \* main.py and proxy.py construct a client of their own; the
            \* non-streaming request is awaited at once
            /\ client' = Some(AsyncOpenAI(k, get_api_url(p), created + 1))
            /\ created' = created + 1
            /\ issued' = IF s THEN issued
                       ELSE Append(issued, completion(AsyncOpenAI(k, get_api_url(p), created + 1),
                                                    msgs, FALSE))
            /\ UNCHANGED <<_clients, lastCall, lookups>>

\* the registry as get_client leaves it when it raises
FailedLookup(p, api_key) ==
    /\ lastCall' = Some(call_record(_clients, created, env, p, api_key))
    /\ lookups' = Append(lookups, <<p, api_key>>)
    /\ cause' = None
    /\ UNCHANGED <<_clients, created, client, key_to_use, issued>>

(***************************************************************************)
(* Endpoint handlers                                                       *)
(***************************************************************************)
\* one call of the handler on the error e it caught: sentry_helpers'
\* capture_exception, or a record of the logger
hook_call(h, e) == [hook |-> h, error |-> e.msg]

\* what the except clause of the handler of endpoint ep (provider p) does with
\* the exception e it caught, up to the error `raised` leaving the handler:
\* chat_openai and generate_model_summary call capture_exception and log, and
\* their track_errors wrapper captures the HTTPException on its way out; the
\* discuss handlers log; the other handlers only raise
handler_reports(ep, p, e, raised) ==
    IF (ep = "chat" /\ p = "openai") \/ ep = "chat_summary"
    THEN << hook_call("capture_exception", e), hook_call("logger.error", e),
            hook_call("capture_exception", raised) >>
    ELSE IF ep \in {"discuss", "discuss_summary"}
    THEN << hook_call("logger.error", e) >>
    ELSE << >>

\* generate_discussion_summary falls back to its second candidate
fallback_reports(ep, e) ==
    IF ep = "discuss_summary" THEN << hook_call("logger.warning", e) >> ELSE << >>

\* chat_X / discuss_X (routers) and chat_X (main.py): decode the header,
\* await call_X(messages, key, streaming, language)
Accept ==
    /\ pc = "call"
    /\ endpoint \in DirectEndpoints
    /\ LET api_key == headers[provider]
           k == resolve_key(api_key, env, provider) IN
       IF call_raises(adapter, streaming, k)
       THEN /\ pc' = "raised"
            /\ call_result' = Raised(call_error(adapter, provider))
            /\ result' = Raised(endpoint_except(call_error(adapter, provider)))
            /\ reported' = reported \o handler_reports(endpoint, provider,
                                          call_error(adapter, provider),
                                          endpoint_except(call_error(adapter, provider)))
            /\ IF adapter = "helpers"
               THEN FailedLookup(provider, api_key)
               ELSE UNCHANGED <<lastCall, _clients, created, client, key_to_use,
                                lookups, issued, cause>>
       ELSE /\ StartCall(adapter, provider, api_key, streaming)
            /\ UNCHANGED <<result, reported>>
    /\ lang_arg' = call_language(endpoint, language, messages)
    /\ UNCHANGED <<endpoint, adapter, provider, streaming, language, headers, env,
                   chunks, events, fault, cand, attempts, errors,
                   messages, previous_model, previous_response, requests,
                   disconnected, responses, authorization, body, logs, thinking_env>>

\* fastapi.responses.JSONResponse({"error": text}, status_code=status)
JSONResponse(text, status) == [type |-> "JSONResponse", error |-> text, status_code |-> status]

\* body.get(...) on a JSON body that is not an object
no_attribute_get ==
    [kind |-> "AttributeError", status |-> 0, msg |-> "object has no attribute 'get'"]

\* auth_header.lower().startswith("bearer ") for a header that is there
is_bearer(h) ==
    /\ h # NoText
    /\ Len(h) >= 7
    /\ SubSeq(h, 1, 7) \in {"Bearer ", "bearer ", "BEARER "}

\* auth_header.split(" ", 1)[1]
bearer_token(h) == SubSeq(h, 8, Len(h))

\* openai_proxy / grok_proxy up to the streaming response: the answer to a
\* request with Authorization header auth and body b
proxy_answer(auth, b) ==
    IF ~is_bearer(auth)
    THEN Returned(JSONResponse("Missing or invalid Authorization header.", 401))
    ELSE IF b.type = "invalid"
    THEN Returned(JSONResponse("Invalid JSON body.", 400))
    ELSE IF b.type # "object"
    THEN Raised(no_attribute_get)
    ELSE IF b.model = NoText
    THEN Returned(JSONResponse("Missing model parameter.", 400))
    ELSE IF ~b.stream
    THEN Returned(JSONResponse("Only streaming mode is supported.", 400))
    ELSE Returned(StreamingResponse)

\* openai_proxy / grok_proxy: the request is validated; for a valid one the
\* client is built from the bearer token and the streaming response is
\* returned
AcceptProxy ==
    /\ pc = "call"
    /\ endpoint = "proxy"
    /\ result' = proxy_answer(authorization, body)
    /\ IF proxy_answer(authorization, body) = Returned(StreamingResponse)
       THEN StartCall("proxy", provider, bearer_token(authorization), TRUE)
       ELSE /\ pc' = IF proxy_answer(authorization, body)[1].kind = "raised"
                     THEN "raised" ELSE "returned"
            /\ UNCHANGED <<key_to_use, call_result, cause, client, created, issued,
                           _clients, lastCall, lookups>>
    /\ UNCHANGED <<endpoint, adapter, provider, streaming, language, headers, env,
                   chunks, events, fault, cand, attempts, errors,
                   messages, previous_model, previous_response, requests, reported, ioVars>>

\* summary (main.py), generate_model_summary (chat.py),
\* generate_discussion_summary (discuss.py): the handler starts its chain; in
\* streaming mode main.py and chat.py have returned the streaming response
AcceptSummary ==
    /\ pc = "call"
    /\ endpoint \in SummaryEndpoints
    /\ pc' = "try"
    /\ cand' = 1
    /\ UNCHANGED <<endpoint, adapter, provider, streaming, language, headers, env,
                   key_to_use, client, chunks, events, result, fault, attempts, errors,
                   messages, previous_model, previous_response, issued, lookups, cause,
                   call_result, requests, reported, ioVars, _clients, created, lastCall>>

\* the chain moves past candidate number cand, which failed with error e
\* (entry: whether main.py records it)
NextCandidate(e, entry) ==
    LET chain == candidates(endpoint, language) IN
    /\ errors' = IF endpoint = "main_summary" /\ entry
                 THEN Append(errors, e) ELSE errors
    /\ IF cand < Len(chain)
       THEN /\ cand' = cand + 1
            /\ pc' = "try"
            /\ reported' = reported \o fallback_reports(endpoint, e)
            /\ UNCHANGED result
       ELSE IF endpoint = "main_summary"
       THEN /\ cand' = cand + 1
            /\ pc' = "exhausted"
            /\ UNCHANGED <<result, reported>>
       ELSE /\ pc' = "raised"
            /\ result' = Raised(summary_raise(endpoint, e))
            /\ reported' = reported \o handler_reports(endpoint, chain[cand],
                                          summary_caught(endpoint, e),
                                          summary_raise(endpoint, e))
            /\ UNCHANGED cand

\* one candidate of a summary chain is tried
TryCandidate ==
    /\ pc = "try"
    /\ LET p == candidates(endpoint, language)[cand]
           a == IF endpoint = "main_summary" THEN "main" ELSE "helpers"
           api_key == IF endpoint = "discuss_summary" THEN headers[p] ELSE NoKey
           k == resolve_key(api_key, env, p)
           s == candidate_streams(endpoint, cand, streaming) IN
       IF endpoint = "main_summary" /\ k = NoKey
       THEN \* `if KEY:` is false: the candidate is not called
            /\ NextCandidate(missing_entry(p), records_missing(cand))
            /\ UNCHANGED <<adapter, provider, attempts, key_to_use, client, fault,
                           issued, lookups, cause, call_result, _clients, created, lastCall,
                           lang_arg>>
       ELSE /\ attempts' = Append(attempts, p)
            /\ lang_arg' = call_language(endpoint, language, messages)
            /\ adapter' = a
            /\ provider' = p
            /\ IF call_raises(a, s, k)
               THEN /\ call_result' = Raised(call_error(a, p))
                    /\ IF streaming /\ endpoint = "chat_summary"
                       THEN \* summary_stream_generator has no handler
                            /\ pc' = "gen_raised"
                            /\ fault' = Some(call_error(a, p))
                            /\ FailedLookup(p, api_key)
                            /\ UNCHANGED <<cand, errors, result, reported>>
                       ELSE /\ NextCandidate(call_error(a, p), FALSE)
                            /\ FailedLookup(p, api_key)
                            /\ UNCHANGED fault
               ELSE /\ StartCall(a, p, api_key, s)
                    /\ UNCHANGED <<cand, errors, result, fault, reported>>
    /\ UNCHANGED <<endpoint, streaming, language, headers, env, chunks, events,
                   messages, previous_model, previous_response, requests,
                   disconnected, responses, authorization, body, logs, thinking_env>>

\* the error call_X raises for the failure e of its non-streaming request
request_error(a, p, e) == IF a = "main" THEN main_except(p, e) ELSE helpers_raise(p, e)

\* the value a non-streaming call_X returns for the completion t
call_value(a, p, t) == IF a = "main" THEN t ELSE [content |-> t, model |-> p]

\* the value the endpoint returns for the value v of its call
endpoint_value(ep, v) ==
    IF ep = "main_summary" THEN [summary |-> v]
    ELSE IF ep = "chat_summary" THEN [content |-> v.content]
    ELSE v

\* the awaited non-streaming request completes with the text t
RespondOk(t) ==
    /\ pc = "awaiting"
    /\ IF endpoint = "main_summary" /\ streaming
       THEN \* summary_generator wraps the string in a content event
            /\ events' = Append(events, main_content("summary", call_value(adapter, provider, t)))
            /\ adapter' = "summary"
            /\ pc' = "tail"
            /\ UNCHANGED result
       ELSE /\ result' = Returned(endpoint_value(endpoint, call_value(adapter, provider, t)))
            /\ pc' = "returned"
            /\ UNCHANGED <<events, adapter>>
    /\ call_result' = Returned(call_value(adapter, provider, t))
    /\ UNCHANGED <<endpoint, provider, streaming, language, headers, env, key_to_use,
                   client, chunks, fault, cand, attempts, errors, _clients, created, lastCall,
                   messages, previous_model, previous_response, issued, lookups, cause,
                   requests, reported, ioVars>>

\* the awaited non-streaming request fails with the exception e
RespondFail(e) ==
    /\ pc = "awaiting"
    /\ LET raised == request_error(adapter, provider, e) IN
       IF endpoint \in SummaryEndpoints
       THEN NextCandidate(IF endpoint = "main_summary"
                          THEN error_entry(provider, raised) ELSE raised, TRUE)
       ELSE /\ pc' = "raised"
            /\ result' = Raised(endpoint_except(raised))
            /\ reported' = reported \o handler_reports(endpoint, provider, raised,
                                                       endpoint_except(raised))
            /\ UNCHANGED <<cand, errors>>
    /\ cause' = Some(e)
    /\ call_result' = Raised(request_error(adapter, provider, e))
    /\ UNCHANGED <<endpoint, adapter, provider, streaming, language, headers, env,
                   key_to_use, client, chunks, events, fault, attempts,
                   messages, previous_model, previous_response, issued, lookups,
                   requests, ioVars, _clients, created, lastCall>>

\* main.generate_summary after its last candidate: the aggregate error is
\* raised; summary_generator turns it into an error event, the non-streaming
\* handler raises
RaiseAggregate ==
    /\ pc = "exhausted"
    /\ IF streaming
       THEN /\ events' = Append(events, error_event("summary", "summary", aggregate_error(errors)))
            /\ fault' = Some(aggregate_error(errors))
            /\ adapter' = "summary"
            /\ pc' = "erroring"
            /\ UNCHANGED result
       ELSE /\ result' = Raised(summary_except(aggregate_error(errors)))
            /\ pc' = "raised"
            /\ UNCHANGED <<events, fault, adapter>>
    /\ UNCHANGED <<endpoint, provider, streaming, language, headers, env, key_to_use,
                   client, chunks, cand, attempts, errors, _clients, created, lastCall,
                   messages, previous_model, previous_response, issued, lookups, cause,
                   call_result, requests, reported, ioVars>>

(***************************************************************************)
(* Stream generators: stream_response_generator (model_helpers.py),        *)
(* content_generator (main.py), event_stream (proxy.py)                    *)
(***************************************************************************)
\* (variant: the handler re-raises instead of closing the stream)
on_failure_reraise(a, p, e) ==
    /\ events' = Append(events, error_event(a, p, e))
    /\ fault' = Some(e)
    /\ pc' = "gen_raised"

\* (variant: the handler yields the done event with the error event, and again
\* when it resumes)
on_failure_double_done(a, p, e) ==
    /\ events' = events \o << error_event(a, p, e), done_event(a, p) >>
    /\ fault' = Some(e)
    /\ pc' = "erroring"

\* the except clause of a generator: the error event is yielded, the done
\* event is yielded next
on_failure(a, p, e) ==
    /\ events' = Append(events, error_event(a, p, e))
    /\ fault' = Some(e)
    /\ pc' = "erroring"

\* (variant: the end of the upstream closes the stream without a done event)
on_end_silent(a, p) ==
    /\ events' = events
    /\ pc' = "closed"

\* after the last chunk: the done event is yielded and the generator returns
on_end(a, p) ==
    /\ events' = Append(events, done_event(a, p))
    /\ pc' = "closed"

\* (variant: events are delivered newest first)
on_chunk_prepend(a, p, c) == chunk_events(a, p, c) \o events

\* the events after the generator handled chunk c
on_chunk(a, p, c) == events \o chunk_events(a, p, c)

\* the generator is consumed for the first time and runs to its first await;
\* the helpers generator resolves its client here
GenStart ==
    /\ pc = "gen_start"
    /\ LET msgs == request_messages(adapter, provider, call_language(endpoint, language, messages),
                       call_messages(endpoint, provider, language, messages,
                                     previous_model, previous_response)) IN
       IF adapter = "helpers"
       THEN /\ lastCall' = Some(call_record(_clients, created, env, provider, key_to_use))
            /\ lookups' = Append(lookups, <<provider, key_to_use>>)
            /\ IF key_to_use = NoKey
               THEN /\ on_failure(adapter, provider, key_not_configured(provider))
                    /\ UNCHANGED <<client, _clients, created, issued>>
               ELSE /\ _clients' = clients_after(_clients, provider, key_to_use, created)
                    /\ created' = created_after(_clients, provider, key_to_use, created)
                    /\ client' = Some(clients_after(_clients, provider, key_to_use, created)[provider])
                    /\ issued' = Append(issued,
                                 completion(clients_after(_clients, provider, key_to_use,
                                                          created)[provider], msgs, TRUE))
                    /\ pc' = "connecting"
                    /\ UNCHANGED <<events, fault>>
       ELSE /\ pc' = "connecting"
            /\ issued' = Append(issued, completion(client[1], msgs, TRUE))
            /\ UNCHANGED <<events, fault, client, _clients, created, lastCall, lookups>>
    /\ UNCHANGED <<endpoint, adapter, provider, streaming, language, headers, env,
                   key_to_use, chunks, result, cand, attempts, errors,
                   messages, previous_model, previous_response, cause, call_result,
                   requests, reported, ioVars>>

\* client.chat.completions.create(stream=True) returns the upstream stream
CreateOk ==
    /\ pc = "connecting"
    /\ pc' = "iterating"
    /\ UNCHANGED <<endpoint, adapter, provider, streaming, language, headers, env,
                   key_to_use, client, chunks, events, result, fault, cand, attempts,
                   errors, _clients, created, lastCall,
                   messages, previous_model, previous_response, issued, lookups, cause,
                   call_result, requests, reported, ioVars>>

\* client.chat.completions.create(stream=True) raises e
CreateFail(e) ==
    /\ pc = "connecting"
    /\ on_failure(adapter, provider, e)
    /\ UNCHANGED <<endpoint, adapter, provider, streaming, language, headers, env,
                   key_to_use, client, chunks, result, cand, attempts, errors,
                   _clients, created, lastCall,
                   messages, previous_model, previous_response, issued, lookups, cause,
                   call_result, requests, reported, ioVars>>

\* where a generator can be after it yielded an event: it is resumed for the
\* next chunk, or, when the client has gone away, the transport that consumes
\* it may be cancelled at its next suspension point
after_yield(gone) == IF gone THEN {"iterating", "cancelled"} ELSE {"iterating"}

\* the upstream delivers chunk c
NextChunk(c) ==
    /\ pc = "iterating"
    /\ Len(chunks) < MaxChunks
    /\ chunks' = Append(chunks, c)
    /\ IF chunk_raises(adapter, c)
       THEN on_failure(adapter, provider, AttributeError)
       ELSE /\ events' = on_chunk(adapter, provider, c)
            /\ pc' \in after_yield(disconnected)
            /\ UNCHANGED fault
    /\ UNCHANGED <<endpoint, adapter, provider, streaming, language, headers, env,
                   key_to_use, client, result, cand, attempts, errors,
                   _clients, created, lastCall,
                   messages, previous_model, previous_response, issued, lookups, cause,
                   call_result, requests, reported, ioVars>>

\* the upstream stream ends
UpstreamEnd ==
    /\ pc = "iterating"
    /\ on_end(adapter, provider)
    /\ UNCHANGED <<endpoint, adapter, provider, streaming, language, headers, env,
                   key_to_use, client, chunks, result, fault, cand, attempts, errors,
                   _clients, created, lastCall,
                   messages, previous_model, previous_response, issued, lookups, cause,
                   call_result, requests, reported, ioVars>>

\* the upstream stream raises e while it is iterated
UpstreamFail(e) ==
    /\ pc = "iterating"
    /\ on_failure(adapter, provider, e)
    /\ UNCHANGED <<endpoint, adapter, provider, streaming, language, headers, env,
                   key_to_use, client, chunks, result, cand, attempts, errors,
                   _clients, created, lastCall,
                   messages, previous_model, previous_response, issued, lookups, cause,
                   call_result, requests, reported, ioVars>>

\* the done event that follows an error event, or the content event of
\* summary_generator
EmitDone ==
    /\ pc \in {"erroring", "tail"}
    /\ events' = Append(events, done_event(adapter, provider))
    /\ pc' = "closed"
    /\ UNCHANGED <<endpoint, adapter, provider, streaming, language, headers, env,
                   key_to_use, client, chunks, result, fault, cand, attempts, errors,
                   _clients, created, lastCall,
                   messages, previous_model, previous_response, issued, lookups, cause,
                   call_result, requests, reported, ioVars>>

(***************************************************************************)
(* One request, from its acceptance to its terminal signal                 *)
(***************************************************************************)
\* the conversations of the chat requests explored: one that starts with the
\* user's message, one that starts with a system message
RequestConversations ==
    { << Msg("user", "Hi") >>,
      << Msg("system", "Be brief"), Msg("user", "Hi") >> }

\* the credentials of the providers in ps vary, the others are configured
EnvFor(ps) == { e \in [Providers -> {NoKey, EnvKey}] : \A q \in Providers \ ps : e[q] = EnvKey }
\* the headers of the providers in ps vary, the others are absent
HeadersFor(ps) == { h \in [Providers -> {NoKey, "user-key-1"}] : \A q \in Providers \ ps : h[q] = NoKey }

\* the Authorization headers of the proxy requests explored: absent, of
\* another scheme, a bearer token
AuthorizationHeaders == {NoText, "Basic dXNlcjpwdw==", "Bearer user-key-1"}

\* the bodies of the proxy requests explored: not JSON, JSON that is not an
\* object, and objects without model, without stream, and with both
ProxyBodies ==
    { [type |-> "invalid"],
      [type |-> "array"],
      [type |-> "object", model |-> NoText, stream |-> TRUE],
      [type |-> "object", model |-> "gpt-4o", stream |-> FALSE],
      [type |-> "object", model |-> "gpt-4o", stream |-> TRUE] }

InitRequest ==
    /\ thinking_env = NoText
    /\ EmptyRegistry
    /\ pc = "call"
    /\ key_to_use = NoKey
    /\ client = None
    /\ chunks = <<>>
    /\ events = <<>>
    /\ result = None
    /\ fault = None
    /\ cand = 0
    /\ attempts = <<>>
    /\ errors = <<>>
    /\ issued = <<>>
    /\ lookups = <<>>
    /\ cause = None
    /\ call_result = None
    /\ reported = <<>>
    /\ disconnected = FALSE
    /\ responses = <<>>
    /\ logs = <<>>
    /\ lang_arg = NoText
    /\ NoRequests
    /\ endpoint \in Endpoints
    /\ streaming \in BOOLEAN
    /\ language \in {"en", "zh"}
    /\ \/ /\ endpoint = "chat"
          /\ adapter = "helpers"
          /\ provider \in Providers
          /\ language = "en"
          /\ headers \in HeadersFor({provider})
          /\ env \in EnvFor({provider})
          /\ messages \in RequestConversations
          /\ previous_model = NoText
          /\ previous_response = NoText
          /\ authorization = NoText
          /\ body = NoBody
       \/ /\ endpoint = "discuss"
          /\ adapter = "helpers"
          /\ provider \in Providers
          /\ language = "en"
          /\ headers \in HeadersFor({provider})
          /\ env \in EnvFor({provider})
          /\ messages = << Msg("user", "Hi") >>
          /\ \E pv \in { <<NoText, NoText>>, <<"OpenAI", "an earlier answer">> } :
                 /\ previous_model = pv[1]
                 /\ previous_response = pv[2]
          /\ authorization = NoText
          /\ body = NoBody
       \/ /\ endpoint = "main_chat"
          /\ adapter = "main"
          /\ provider \in Providers
          /\ language = "en"
          /\ headers \in HeadersFor({provider})
          /\ env \in EnvFor({provider})
          /\ messages \in RequestConversations
          /\ previous_model = NoText
          /\ previous_response = NoText
          /\ authorization = NoText
          /\ body = NoBody
       \/ /\ endpoint = "proxy"
          /\ adapter = "proxy"
          /\ provider \in ProxyProviders
          /\ language = "en"
          /\ headers = NoHeaders
          /\ authorization \in AuthorizationHeaders
          /\ body \in ProxyBodies
          /\ streaming = (body.type = "object" /\ body.stream)
          /\ env \in EnvFor({})
          /\ messages = << Msg("user", "Hi") >>
          /\ previous_model = NoText
          /\ previous_response = NoText
       \/ /\ endpoint = "main_summary"
          /\ adapter = "none"
          /\ provider = "none"
          /\ headers = NoHeaders
          /\ env \in EnvFor({"deepseek", "openai", "qwen"})
          /\ messages = <<>>
          /\ previous_model = NoText
          /\ previous_response = NoText
          /\ authorization = NoText
          /\ body = NoBody
       \/ /\ endpoint = "chat_summary"
          /\ adapter = "none"
          /\ provider = "none"
          /\ headers = NoHeaders
          /\ env \in EnvFor({"openai", "qwen"})
          /\ messages = <<>>
          /\ previous_model = NoText
          /\ previous_response = NoText
          /\ authorization = NoText
          /\ body = NoBody
       \/ /\ endpoint = "discuss_summary"
          /\ adapter = "none"
          /\ provider = "none"
          /\ headers \in HeadersFor({"deepseek", "qwen"})
          /\ env \in EnvFor({"deepseek", "qwen"})
          /\ messages = <<>>
          /\ previous_model = NoText
          /\ previous_response = NoText
          /\ authorization = NoText
          /\ body = NoBody

Next ==
    \/ Accept
    \/ AcceptProxy
    \/ AcceptSummary
    \/ TryCandidate
    \/ \E t \in Completions(provider) : RespondOk(t)
    \/ \E e \in UpstreamErrors : RespondFail(e)
    \/ RaiseAggregate
    \/ GenStart
    \/ CreateOk
    \/ \E e \in UpstreamErrors : CreateFail(e)
    \/ \E c \in Chunks : NextChunk(c)
    \/ UpstreamEnd
    \/ \E e \in UpstreamErrors : UpstreamFail(e)
    \/ EmitDone

\* one request served by the backend or the proxy
Spec == InitRequest /\ [][Next]_vars

\* the same under fair scheduling: a handler or generator that can take a
\* step eventually takes one, and the upstream ends its stream or fails
FairSpec == Spec /\ WF_vars(Next)

(***************************************************************************)
(* Client disconnects: no generator and no handler looks at the connection; *)
(* the transport cancels the task that consumes the generator, and the       *)
(* cancellation is raised by the await the task is suspended at              *)
(***************************************************************************)
\* whether the generator of adapter a waits for its provider at an await:
\* model_helpers.py and main.py await AsyncOpenAI (`await create`, `async
\* for`); proxy.py calls the synchronous OpenAI client (`create(...)`, `for
\* chunk in response`) inside its async generator, which returns to the
\* event loop only when it yields
awaits_provider(a) == a # "proxy"

\* the client goes away while the generator waits for the provider: a
\* generator suspended at an await is cancelled there (its `except Exception`
\* does not catch the cancellation); a generator inside a synchronous call
\* keeps the event loop and goes on
Disconnect ==
    /\ pc \in {"connecting", "iterating"}
    /\ ~disconnected
    /\ disconnected' = TRUE
    /\ pc' = IF awaits_provider(adapter) THEN "cancelled" ELSE pc
    /\ UNCHANGED <<endpoint, adapter, provider, streaming, language, headers, env,
                   key_to_use, client, chunks, events, result, fault, cand, attempts,
                   errors, messages, previous_model, previous_response, issued, lookups,
                   cause, call_result, reported, responses, authorization, body, logs,
                   lang_arg, thinking_env, requests, _clients, created, lastCall>>

NextDisconnect ==
    \/ Next
    \/ Disconnect

\* one request whose client may go away while its stream is delivered
SpecDisconnect == InitRequest /\ [][NextDisconnect]_vars

(***************************************************************************)
(* Streaming requests served by one process on one event loop              *)
(***************************************************************************)
\* a streaming request in the process: where its generator stands and how
\* many upstream chunks it has received
task(pos, n) == [pc |-> pos, received |-> n]

\* the generator of request r keeps the event loop while it waits for the
\* provider: event_stream of proxy.py waits inside the synchronous
\* `create(...)` and `for chunk in response`; the generators of the backend
\* wait at `await` and `async for`
holds_loop(a, r) == ~awaits_provider(a) /\ r.pc \in {"connecting", "waiting"}

\* the event loop can run a step of request i, or of a new request when i = 0
can_run(i) ==
    \A j \in 1..Len(requests) : j # i => ~holds_loop(adapter, requests[j])

\* the handler validates a request and returns its StreamingResponse
TaskAccept ==
    /\ Len(requests) < MaxRequests
    /\ can_run(0)
    /\ requests' = Append(requests, task("accepted", 0))
    /\ UNCHANGED <<reqVars, regVars>>

\* the transport starts the generator, which issues the streaming request
TaskStart(i) ==
    /\ i \in 1..Len(requests)
    /\ requests[i].pc = "accepted"
    /\ can_run(0)
    /\ requests' = [requests EXCEPT ![i].pc = "connecting"]
    /\ UNCHANGED <<reqVars, regVars>>

\* the provider answers the streaming request
TaskConnected(i) ==
    /\ i \in 1..Len(requests)
    /\ requests[i].pc = "connecting"
    /\ can_run(i)
    /\ requests' = [requests EXCEPT ![i].pc = "waiting"]
    /\ UNCHANGED <<reqVars, regVars>>

\* the next upstream chunk arrives and the generator yields its event
TaskChunk(i) ==
    /\ i \in 1..Len(requests)
    /\ requests[i].pc = "waiting"
    /\ requests[i].received < MaxChunks
    /\ can_run(i)
    /\ requests' = [requests EXCEPT ![i] = task("yielded", @.received + 1)]
    /\ UNCHANGED <<reqVars, regVars>>

\* the transport has sent the event and resumes the generator
TaskSent(i) ==
    /\ i \in 1..Len(requests)
    /\ requests[i].pc = "yielded"
    /\ can_run(0)
    /\ requests' = [requests EXCEPT ![i].pc = "waiting"]
    /\ UNCHANGED <<reqVars, regVars>>

\* the upstream stream ends and the generator finishes
TaskEnd(i) ==
    /\ i \in 1..Len(requests)
    /\ requests[i].pc = "waiting"
    /\ can_run(i)
    /\ requests' = [requests EXCEPT ![i].pc = "closed"]
    /\ UNCHANGED <<reqVars, regVars>>

InitSchedule ==
    /\ thinking_env = NoText
    /\ endpoint = "none"
    /\ adapter \in {"helpers", "main", "proxy"}
    /\ provider = "none"
    /\ streaming = TRUE
    /\ language = "en"
    /\ headers = NoHeaders
    /\ env = [p \in Providers |-> EnvKey]
    /\ pc = "idle"
    /\ key_to_use = NoKey
    /\ client = None
    /\ chunks = <<>>
    /\ events = <<>>
    /\ result = None
    /\ fault = None
    /\ cand = 0
    /\ attempts = <<>>
    /\ errors = <<>>
    /\ messages = <<>>
    /\ previous_model = NoText
    /\ previous_response = NoText
    /\ issued = <<>>
    /\ lookups = <<>>
    /\ cause = None
    /\ call_result = None
    /\ reported = <<>>
    /\ disconnected = FALSE
    /\ responses = <<>>
    /\ authorization = NoText
    /\ body = NoBody
    /\ logs = <<>>
    /\ lang_arg = NoText
    /\ NoRequests
    /\ EmptyRegistry

NextSchedule ==
    \/ TaskAccept
    \/ \E i \in 1..MaxRequests : TaskStart(i)
    \/ \E i \in 1..MaxRequests : TaskConnected(i)
    \/ \E i \in 1..MaxRequests : TaskChunk(i)
    \/ \E i \in 1..MaxRequests : TaskSent(i)
    \/ \E i \in 1..MaxRequests : TaskEnd(i)

\* the streaming requests of one process (backend or proxy), interleaved by
\* its event loop
SpecSchedule == InitSchedule /\ [][NextSchedule]_vars

(***************************************************************************)
(* Log records: the proxy's logger, the backend's loggers and its           *)
(* request-logging middleware; a request is followed together with a       *)
(* second one that differs from it in its credentials only                 *)
(***************************************************************************)
\* JSON values: strings, lists, and objects as the sequence of their items
jstr(v)      == [t |-> "str", v |-> v]
jlist(items) == [t |-> "list", v |-> items]
jdict(items) == [t |-> "dict", v |-> items]

\* k.lower() for the field names explored
lower(k) ==
    CASE k = "apiKey" -> "apikey"
      [] k = "API_KEY" -> "api_key"
      [] k = "Authorization" -> "authorization"
      [] OTHER -> k

\* logger.sanitize_payload: the field names redacted
sensitive_fields ==
    {"api_key", "apiKey", "api_keys", "apiKeys", "key", "token", "secret",
     "password", "credentials", "authorization", "auth"}

\* any(field in k.lower() for field in sensitive_fields)
is_sensitive(k) ==
    \E field \in sensitive_fields :
        \E i \in 1..(Len(lower(k)) - Len(field) + 1) :
            SubSeq(lower(k), i, i + Len(field) - 1) = field

RECURSIVE sanitize_payload(_)

\* (variant: nested objects and lists are copied as they are)
sanitize_payload_shallow(payload) ==
    IF payload.t = "dict"
    THEN jdict([i \in 1..Len(payload.v) |->
                  IF is_sensitive(payload.v[i][1])
                  THEN <<payload.v[i][1], jstr("[REDACTED]")>>
                  ELSE payload.v[i]])
    ELSE payload

\* logger.sanitize_payload (_sanitize): sensitive fields are redacted at
\* every depth
sanitize_payload(payload) ==
    IF payload.t = "dict"
    THEN jdict([i \in 1..Len(payload.v) |->
                  IF is_sensitive(payload.v[i][1])
                  THEN <<payload.v[i][1], jstr("[REDACTED]")>>
                  ELSE <<payload.v[i][1], sanitize_payload(payload.v[i][2])>>])
    ELSE IF payload.t = "list"
    THEN jlist([i \in 1..Len(payload.v) |-> sanitize_payload(payload.v[i])])
    ELSE payload

\* json.dumps: the text of a JSON value as the log file holds it
RECURSIVE dumps(_)
RECURSIVE dumps_items(_, _)
dumps_items(items, is_dict) ==
    IF items = <<>> THEN ""
    ELSE (IF is_dict THEN "\"" \o Head(items)[1] \o "\": " \o dumps(Head(items)[2])
          ELSE dumps(Head(items)))
             \o (IF Len(items) > 1 THEN ", " ELSE "")
             \o dumps_items(Tail(items), is_dict)

dumps(obj) ==
    IF obj.t = "dict" THEN "{" \o dumps_items(obj.v, TRUE) \o "}"
    ELSE IF obj.t = "list" THEN "[" \o dumps_items(obj.v, FALSE) \o "]"
    ELSE "\"" \o obj.v \o "\""

\* a log record: its level, its message and, for the record of a request,
\* the sanitized payload
log_record(level, msg, payload) == [level |-> level, msg |-> msg, payload |-> payload]

\* logger.log_request, called by RequestLoggingMiddleware.dispatch
log_request(method, path, status_code, payload) ==
    log_record("INFO", method \o " " \o path \o " " \o ToString(status_code),
               dumps(sanitize_payload(payload)))

\* proxy.py: the records openai_proxy / grok_proxy write for the request of
\* provider p with Authorization header auth and body b; the braces of the
\* first message are doubled in the f-string, so the text between them is
\* written as it stands
proxy_records(p, auth, b) ==
    << log_record("INFO", "[" \o upper(p) \o "] Request: path=/" \o p \o "/v1/chat/completions, "
                      \o "headers={k: v for k, v in request.headers.items() "
                      \o "if k.lower() != 'authorization'}, client=Address(host='10.0.0.1')",
                  "") >>
    \o (IF ~is_bearer(auth)
        THEN << log_record("WARNING", "[" \o upper(p) \o "] Missing or invalid Authorization header.", "") >>
        ELSE IF b.type = "invalid"
        THEN << log_record("ERROR", "[" \o upper(p) \o "] Invalid JSON body: Expecting value", "") >>
        ELSE IF b.type # "object"
        THEN << >>
        ELSE IF b.model = NoText
        THEN << log_record("WARNING", "[" \o upper(p) \o "] Missing model parameter.", "") >>
        ELSE IF ~b.stream
        THEN << log_record("WARNING", "[" \o upper(p) \o "] Only streaming mode is supported.", "") >>
        ELSE << >>)

\* proxy.py event_stream: the record written when the generator starts
proxy_stream_record(p, b) ==
    log_record("INFO", "[" \o upper(p) \o "] Streaming ChatCompletion: model=" \o b.model, "")

\* the records of the error hook and the loggers for the calls a handler made
hook_records(calls) ==
    [i \in 1..Len(calls) |-> log_record("ERROR", calls[i].hook \o ": " \o calls[i].error, "")]

\* the path of a backend endpoint
api_path(ep, p) ==
    (IF ep = "discuss" THEN "/api/discuss/" ELSE "/api/chat/") \o p

\* the outcome of a provider call that succeeded
completed == [kind |-> "ok", status |-> 200, msg |-> ""]

\* the records the backend writes for a chat or discuss request of provider p
\* with headers hdrs, environment e and body b, when the provider call ends
\* as outcome (completed, or the exception raised): the handler's, the record of
\* the request, and the generator's for a failure inside the stream
backend_records(ep, a, p, hdrs, e, b, s, outcome) ==
    LET k == resolve_key(hdrs[p], e, p)
        eager == call_raises(a, s, k)
        failed == eager \/ (~s /\ outcome.kind # "ok")
        caught == IF eager THEN call_error(a, p) ELSE request_error(a, p, outcome) IN
    (IF failed
     THEN (IF a = "helpers" THEN << log_record("ERROR", caught.msg, "") >> ELSE << >>)
              \o hook_records(handler_reports(ep, p, caught, endpoint_except(caught)))
     ELSE << >>)
    \o << log_request("POST", api_path(ep, p), IF failed THEN 500 ELSE 200, b) >>
    \o (IF s /\ ~eager /\ a = "helpers" /\ (k = NoKey \/ outcome.kind # "ok")
        THEN << log_record("ERROR", "Failed to call " \o display(p) \o " API: "
                              \o (IF k = NoKey THEN key_not_configured(p).msg ELSE outcome.msg), ""),
                log_record("ERROR", "Exception details:", "") >>
        ELSE << >>)

\* a second credential for each credential
other_key(k) ==
    IF k = NoKey THEN NoKey
    ELSE IF k = EnvKey THEN "env-key-2"
    ELSE "user-key-2"

\* the bodies of the backend requests explored, carrying the credential k
\* where a client put one
LogBodies(k) ==
    << jdict(<< <<"messages", jlist(<< jdict(<< <<"role", jstr("user")>>,
                                               <<"content", jstr("Hi")>> >>) >>)>>,
               <<"stream", jstr("true")>> >>),
       jdict(<< <<"messages", jlist(<< >>)>>, <<"api_key", jstr(k)>> >>),
       jdict(<< <<"messages", jlist(<< >>)>>,
               <<"config", jdict(<< <<"apiKey", jstr(k)>>, <<"model", jstr("gpt-4o")>> >>)>> >>),
       jdict(<< <<"messages", jlist(<< jdict(<< <<"Authorization", jstr("Bearer " \o k)>> >>) >>)>> >>) >>

\* the second request: the credentials it carries and the records written
\* for it
twin(hdrs, e, auth, b, written) ==
    [headers |-> hdrs, env |-> e, authorization |-> auth, body |-> b, logs |-> written]

\* openai_proxy / grok_proxy serve the request
LogProxyRequest ==
    /\ pc = "call"
    /\ endpoint = "proxy"
    /\ result' = proxy_answer(authorization, body)
    /\ pc' = IF proxy_answer(authorization, body) = Returned(StreamingResponse) THEN "gen_start"
             ELSE IF proxy_answer(authorization, body)[1].kind = "raised" THEN "raised"
             ELSE "returned"
    /\ logs' = logs \o proxy_records(provider, authorization, body)
    /\ requests' = [requests EXCEPT ![1].logs =
                        @ \o proxy_records(provider, requests[1].authorization, requests[1].body)]
    /\ UNCHANGED <<endpoint, adapter, provider, streaming, language, headers, env,
                   key_to_use, client, chunks, events, fault, cand, attempts, errors,
                   messages, previous_model, previous_response, issued, lookups, cause,
                   call_result, reported, disconnected, responses, authorization, body,
                   lang_arg, thinking_env, regVars>>

\* the transport starts event_stream
LogProxyStream ==
    /\ pc = "gen_start"
    /\ endpoint = "proxy"
    /\ pc' = "connecting"
    /\ logs' = Append(logs, proxy_stream_record(provider, body))
    /\ requests' = [requests EXCEPT ![1].logs =
                        Append(@, proxy_stream_record(provider, requests[1].body))]
    /\ UNCHANGED <<endpoint, adapter, provider, streaming, language, headers, env,
                   key_to_use, client, chunks, events, result, fault, cand, attempts, errors,
                   messages, previous_model, previous_response, issued, lookups, cause,
                   call_result, reported, disconnected, responses, authorization, body,
                   lang_arg, thinking_env, regVars>>

\* the backend serves a chat or discuss request whose provider call ends as
\* outcome
LogBackendRequest(outcome) ==
    /\ pc = "call"
    /\ endpoint \in DirectEndpoints
    /\ pc' = IF call_raises(adapter, streaming, resolve_key(headers[provider], env, provider))
                  \/ (~streaming /\ outcome.kind # "ok")
             THEN "raised" ELSE "returned"
    /\ logs' = logs \o backend_records(endpoint, adapter, provider, headers, env, body,
                                       streaming, outcome)
    /\ requests' = [requests EXCEPT ![1].logs =
                        @ \o backend_records(endpoint, adapter, provider, requests[1].headers,
                                             requests[1].env, requests[1].body,
                                             streaming, outcome)]
    /\ UNCHANGED <<endpoint, adapter, provider, streaming, language, headers, env,
                   key_to_use, client, chunks, events, result, fault, cand, attempts, errors,
                   messages, previous_model, previous_response, issued, lookups, cause,
                   call_result, reported, disconnected, responses, authorization, body,
                   lang_arg, thinking_env, regVars>>

InitLog ==
    /\ thinking_env = NoText
    /\ EmptyRegistry
    /\ pc = "call"
    /\ key_to_use = NoKey
    /\ client = None
    /\ chunks = <<>>
    /\ events = <<>>
    /\ result = None
    /\ fault = None
    /\ cand = 0
    /\ attempts = <<>>
    /\ errors = <<>>
    /\ issued = <<>>
    /\ lookups = <<>>
    /\ cause = None
    /\ call_result = None
    /\ reported = <<>>
    /\ disconnected = FALSE
    /\ responses = <<>>
    /\ logs = <<>>
    /\ lang_arg = NoText
    /\ language = "en"
    /\ messages = << Msg("user", "Hi") >>
    /\ previous_model = NoText
    /\ previous_response = NoText
    /\ \/ /\ endpoint = "proxy"
          /\ adapter = "proxy"
          /\ provider \in ProxyProviders
          /\ headers = NoHeaders
          /\ env = [p \in Providers |-> EnvKey]
          /\ authorization \in AuthorizationHeaders
          /\ body \in ProxyBodies
          /\ streaming = (body.type = "object" /\ body.stream)
          /\ requests = << twin(headers, env,
                                IF is_bearer(authorization)
                                THEN "Bearer " \o other_key(bearer_token(authorization))
                                ELSE authorization,
                                body, <<>>) >>
       \/ /\ endpoint \in DirectEndpoints
          /\ adapter = IF endpoint = "main_chat" THEN "main" ELSE "helpers"
          /\ provider \in Providers
          /\ headers \in HeadersFor({provider})
          /\ env \in EnvFor({provider})
          /\ authorization = NoText
          /\ streaming \in BOOLEAN
          /\ \E i \in 1..Len(LogBodies(NoKey)) :
                 /\ body = LogBodies("user-key-1")[i]
                 /\ requests = << twin([p \in Providers |-> other_key(headers[p])],
                                       [p \in Providers |-> other_key(env[p])],
                                       authorization, LogBodies("user-key-2")[i], <<>>) >>

NextLog ==
    \/ LogProxyRequest
    \/ LogProxyStream
    \/ \E outcome \in {completed} \cup UpstreamErrors : LogBackendRequest(outcome)

\* the log records of a request and of the same request with other credentials
SpecLog == InitLog /\ [][NextLog]_vars

(***************************************************************************)
(* Switching the environment                                               *)
(***************************************************************************)
\* env_config.py: [ENV_DEV, ENV_TEST, ENV_PRD]
Environments == {"dev", "test", "prd"}

\* the {env} path parameters explored
EnvParams == {"dev", "test", "prd", "PRD", "staging"}

\* env_config.get_environment / get_current_env on os.environ te:
\* os.environ.get("THINKING_ENV", ENV_DEV).lower(), "dev" for an unknown name
get_environment(te) ==
    LET e == IF te = NoText THEN "dev" ELSE IF te = "PRD" THEN "prd" ELSE te IN
    IF e \notin Environments THEN "dev" ELSE e

\* env_config.switch_environment: THINKING_ENV after the call
switch_environment(te, e) ==
    IF e \notin Environments THEN te ELSE e

\* main.change_environment: the HTTPException raised for a name outside the
\* three environments
invalid_environment(e) ==
    HTTPException(400, "Invalid environment: " \o e
                           \o ". Must be one of: dev, test, prd")

\* main.change_environment: `except Exception as e` around the whole body
switch_except(e) == HTTPException(500, "Failed to switch environment: " \o e.msg)

\* POST /api/switch-environment/{env}: the check of the name raises inside
\* the try block, whose handler catches every Exception
change_environment(e) ==
    /\ pc \in {"idle", "returned"}
    /\ Len(logs) < MaxRequests
    /\ endpoint' = "switch-environment"
    /\ pc' = "returned"
    /\ IF e \notin Environments
       THEN /\ result' = Raised(switch_except(invalid_environment(e)))
            /\ UNCHANGED <<thinking_env, logs>>
       ELSE /\ thinking_env' = switch_environment(thinking_env, e)
            /\ logs' = Append(logs, log_record("INFO", "Switched to environment: " \o e, ""))
            /\ result' = Returned([status |-> "success",
                                   message |-> "Switched to " \o e
                                       \o " environment and reloaded configuration",
                                   environment |-> e])
    /\ UNCHANGED <<adapter, provider, streaming, language, headers, env,
                   key_to_use, client, chunks, events, fault, cand, attempts, errors,
                   messages, previous_model, previous_response, issued, lookups, cause,
                   call_result, reported, disconnected, responses, authorization, body,
                   lang_arg, requests, regVars>>

\* GET /api/current-environment
current_environment ==
    /\ pc \in {"idle", "returned"}
    /\ endpoint' = "current-environment"
    /\ pc' = "returned"
    /\ result' = Returned([environment |-> get_environment(thinking_env)])
    /\ UNCHANGED <<adapter, provider, streaming, language, headers, env,
                   key_to_use, client, chunks, events, fault, cand, attempts, errors,
                   messages, previous_model, previous_response, issued, lookups, cause,
                   call_result, reported, disconnected, responses, authorization, body,
                   logs, lang_arg, thinking_env, requests, regVars>>

InitEnv ==
    /\ IdleRequest
    /\ NoRequests
    /\ EmptyRegistry
    /\ env = [q \in Providers |-> EnvKey]
    /\ thinking_env \in {NoText, "dev", "test", "prd", "PRD", "staging"}

NextEnv ==
    \/ \E e \in EnvParams : change_environment(e)
    \/ current_environment

\* requests to the two environment endpoints, one after the other
SpecEnv == InitEnv /\ [][NextEnv]_vars

(***************************************************************************)
(* Composition of the conversation a request sends to its provider          *)
(***************************************************************************)
\* the conversations explored: empty, without system message, starting with
\* one, with one after the first message, with an assistant turn
Conversations ==
    { << >>,
      << Msg("user", "Hi") >>,
      << Msg("system", "Be brief"), Msg("user", "Hi") >>,
      << Msg("user", "Hi"), Msg("system", "Be brief") >>,
      << Msg("user", "Hi"), Msg("assistant", "Hello"), Msg("user", "More") >> }

\* conversations of the chat handlers whose texts exercise the language
\* detection ("#", "@": counted characters; "(", ")", "~": characters just
\* outside the range): the share of counted characters of the last user
\* message is none, all, below, at and above one tenth; counted characters
\* in an earlier user message or in messages of other roles only
DetectConversations ==
    { << Msg("user", "") >>,
      << Msg("user", "#@") >>,
      << Msg("user", "@") >>,
      << Msg("user", "()~") >>,
      << Msg("user", "#aaaaaaaaa") >>,
      << Msg("user", "#aaaaaaaa") >>,
      << Msg("user", "#aaaaaaaaaa") >>,
      << Msg("user", "#@aaaaaaaaaaaaaaaaaa") >>,
      << Msg("user", "#@#aaaaaaaaaaaaaaaaa") >>,
      << Msg("user", "#@"), Msg("assistant", "Hello"), Msg("user", "More") >>,
      << Msg("user", "Hi"), Msg("assistant", "Hello"), Msg("user", "#@") >>,
      << Msg("system", "#@"), Msg("user", "Hi"), Msg("assistant", "#@") >>,
      << Msg("system", "#@") >>,
      << Msg("assistant", "#@"), Msg("user", "Hi"), Msg("system", "#@") >> }

\* request.language: the two supported locales and another one
Languages == {"en", "zh", "fr"}

\* SummaryRequest.responses of the summary requests explored: the answers of
\* any set of providers, as the items of the mapping in the order received
ResponseOrder == <<"openai", "grok", "qwen", "deepseek", "glm", "doubao">>

RECURSIVE items_of(_, _)
items_of(order, present) ==
    IF order = <<>> THEN <<>>
    ELSE (IF Head(order) \in present
          THEN << <<Head(order), "answer of " \o Head(order)>> >> ELSE <<>>)
             \o items_of(Tail(order), present)

ResponseMaps == {items_of(ResponseOrder, S) : S \in SUBSET Providers}

InitCompose ==
    /\ thinking_env = NoText
    /\ EmptyRegistry
    /\ NoRequests
    /\ pc = "compose"
    /\ streaming \in BOOLEAN
    /\ headers = NoHeaders
    /\ env = [p \in Providers |-> EnvKey]
    /\ key_to_use = NoKey
    /\ client = None
    /\ chunks = <<>>
    /\ events = <<>>
    /\ result = None
    /\ fault = None
    /\ cand = 0
    /\ attempts = <<>>
    /\ errors = <<>>
    /\ issued = <<>>
    /\ lookups = <<>>
    /\ cause = None
    /\ call_result = None
    /\ reported = <<>>
    /\ disconnected = FALSE
    /\ authorization = NoText
    /\ body = NoBody
    /\ logs = <<>>
    /\ lang_arg = NoText
    /\ provider \in Providers
    /\ language \in Languages
    /\ messages \in Conversations \cup DetectConversations
    /\ \/ /\ endpoint = "chat"
          /\ adapter = "helpers"
          /\ previous_model = NoText
          /\ previous_response = NoText
          /\ responses = <<>>
       \/ /\ endpoint = "main_chat"
          /\ adapter = "main"
          /\ messages \in Conversations
          /\ previous_model = NoText
          /\ previous_response = NoText
          /\ responses = <<>>
       \/ /\ endpoint = "discuss"
          /\ adapter = "helpers"
          /\ messages \in Conversations
          /\ previous_model \in {NoText, "OpenAI"}
          /\ previous_response \in {NoText, "an earlier answer"}
          /\ responses = <<>>
       \/ /\ endpoint \in SummaryEndpoints
          /\ adapter = IF endpoint = "main_summary" THEN "main" ELSE "helpers"
          /\ provider = candidates(endpoint, language)[1]
          /\ messages = <<>>
          /\ previous_model = NoText
          /\ previous_response = NoText
          /\ responses \in ResponseMaps

\* the handler and call_X compose the messages of the completion request
Compose ==
    /\ pc = "compose"
    /\ pc' = "composed"
    /\ result' = Returned(request_messages(adapter, provider, call_language(endpoint, language, messages),
                              call_messages(endpoint, provider, language, messages,
                                            previous_model, previous_response)))
    /\ lang_arg' = call_language(endpoint, language, messages)
    /\ UNCHANGED <<endpoint, adapter, provider, streaming, language, headers, env,
                   key_to_use, client, chunks, events, fault, cand, attempts, errors,
                   messages, previous_model, previous_response, issued, lookups, cause,
                   call_result, requests, reported, disconnected, responses, authorization,
                   body, logs, thinking_env, _clients, created, lastCall>>

NextCompose == Compose

\* the conversation composed for one request
SpecCompose == InitCompose /\ [][NextCompose]_vars

(***************************************************************************)
(* A chain of discussion turns: each turn is one request to discuss_X; the *)
(* driver of the chain is the client of the backend                        *)
(***************************************************************************)
\* a turn of a chain: the DiscussRequest sent to discuss_<p>, the conversation
\* the handler composed for call_<p>, the state of the provider call and the
\* full response once it is there
turn(p, pm, pr, sent, pos, answer) ==
    [provider |-> p, previous_model |-> pm, previous_response |-> pr,
     sent |-> sent, pc |-> pos, answer |-> answer]

\* discuss_<p> serves the request of a turn: the conversation is composed and
\* call_<p> is awaited
discuss_turn(p, pm, pr) ==
    turn(p, pm, pr, format_discuss_messages(messages, display(p), pm, pr, language),
         "in_flight", NoText)

\* the driver opens the chain with the first model: no previous response
ChainStart(p) ==
    /\ requests = <<>>
    /\ requests' = << discuss_turn(p, NoText, NoText) >>
    /\ UNCHANGED <<reqVars, regVars>>

\* the driver awaited the response of the latest turn and sends the next
\* model that response and the name of the model that gave it
ChainNext(p) ==
    /\ requests # <<>>
    /\ Len(requests) < MaxRequests
    /\ requests[Len(requests)].pc = "answered"
    /\ requests' = Append(requests,
                       discuss_turn(p, display(requests[Len(requests)].provider),
                                    requests[Len(requests)].answer))
    /\ UNCHANGED <<reqVars, regVars>>

\* the provider call of the turn in flight completes with its full text
TurnAnswered ==
    /\ requests # <<>>
    /\ requests[Len(requests)].pc = "in_flight"
    /\ \E t \in Completions(requests[Len(requests)].provider) :
           requests' = [requests EXCEPT ![Len(requests)].pc = "answered",
                                        ![Len(requests)].answer = t]
    /\ UNCHANGED <<reqVars, regVars>>

\* the provider call of the turn in flight fails: the chain has no response
\* to hand on
TurnFailed ==
    /\ requests # <<>>
    /\ requests[Len(requests)].pc = "in_flight"
    /\ requests' = [requests EXCEPT ![Len(requests)].pc = "failed"]
    /\ UNCHANGED <<reqVars, regVars>>

InitChain ==
    /\ thinking_env = NoText
    /\ EmptyRegistry
    /\ NoRequests
    /\ endpoint = "discuss"
    /\ adapter = "helpers"
    /\ provider = "none"
    /\ streaming \in BOOLEAN
    /\ language \in {"en", "zh"}
    /\ headers = NoHeaders
    /\ env = [p \in Providers |-> EnvKey]
    /\ pc = "chain"
    /\ key_to_use = NoKey
    /\ client = None
    /\ chunks = <<>>
    /\ events = <<>>
    /\ result = None
    /\ fault = None
    /\ cand = 0
    /\ attempts = <<>>
    /\ errors = <<>>
    /\ messages \in RequestConversations
    /\ previous_model = NoText
    /\ previous_response = NoText
    /\ issued = <<>>
    /\ lookups = <<>>
    /\ cause = None
    /\ call_result = None
    /\ reported = <<>>
    /\ disconnected = FALSE
    /\ responses = <<>>
    /\ authorization = NoText
    /\ body = NoBody
    /\ logs = <<>>
    /\ lang_arg = NoText

NextChain ==
    \/ \E p \in Providers : ChainStart(p)
    \/ \E p \in Providers : ChainNext(p)
    \/ TurnAnswered
    \/ TurnFailed

\* one chain of discussion turns
SpecChain == InitChain /\ [][NextChain]_vars

(***************************************************************************)
(* Properties                                                              *)
(***************************************************************************)
Last(q) == q[Len(q)]
DoneAt  == {i \in 1..Len(events) : IsDone(events[i])}
ErrorAt == {i \in 1..Len(events) : IsError(events[i])}
HasDone == DoneAt # {}

\* the non-empty texts of the chunks cs, in the order of the chunks
RECURSIVE texts_of(_)
texts_of(cs) ==
    IF cs = <<>> THEN <<>>
    ELSE LET c == Head(cs)
             t == IF c.choices = <<>> \/ c.choices[1].delta = None
                     \/ c.choices[1].delta[1].content = None
                  THEN "" ELSE c.choices[1].delta[1].content[1]
         IN (IF t = "" THEN <<>> ELSE <<t>>) \o texts_of(Tail(cs))

\* the content events a client expects for the chunks cs of provider p: the
\* backend sends one {content, model} per non-empty text, the proxy relays
\* every chunk
expected_content(a, p, cs) ==
    IF a = "proxy" THEN cs
    ELSE [i \in 1..Len(texts_of(cs)) |-> [content |-> texts_of(cs)[i], model |-> p]]

\* the stream has been handed to the transport
StreamOpen ==
    \/ pc \in {"gen_start", "connecting", "iterating", "erroring", "tail", "closed", "gen_raised"}
    \/ streaming /\ endpoint \in {"main_summary", "chat_summary"}
                 /\ pc \in {"try", "awaiting", "exhausted"}

\* C1: every stream carries at most one error event and at most one done
\* event; a done event is the last event and closes the stream, and a stream
\* never ends without its done event.
C1_OneTerminalDone ==
    /\ Cardinality(DoneAt) <= 1
    /\ Cardinality(ErrorAt) <= 1
    /\ HasDone => (DoneAt = {Len(events)} /\ pc = "closed")
    /\ pc = "closed" => DoneAt = {Len(events)}
    /\ pc # "gen_raised"

\* a stream that failed before its first chunk and is closed
C1_Witness ==
    /\ pc = "closed"
    /\ fault # None
    /\ chunks = <<>>
    /\ Len(events) = 2
    /\ IsError(events[1])
    /\ IsDone(events[2])

\* C2: when the provider stream fails after k content events, the client
\* receives exactly those k content events in order, then one error event,
\* then the done event, and the failure does not escape the generator.
C2_FailureClosesStream ==
    fault # None =>
        LET sent == expected_content(adapter, provider, chunks) IN
        /\ pc \in {"erroring", "closed"}
        /\ Len(events) = Len(sent) + (IF pc = "closed" THEN 2 ELSE 1)
        /\ SubSeq(events, 1, Len(sent)) = sent
        /\ IsError(events[Len(sent) + 1])
        /\ pc = "closed" => IsDone(events[Len(sent) + 2])

\* a stream that failed after at least one content event and is closed
C2_Witness ==
    /\ fault # None
    /\ pc = "closed"
    /\ adapter = "helpers"
    /\ Len(chunks) >= 2
    /\ Len(events) >= 3
    /\ IsContent(events[1])

\* C3: every initiated call eventually produces its terminal signal: an open
\* stream eventually carries its done event, a non-streaming call eventually
\* returns or raises.
C3_TerminalSignal ==
    /\ StreamOpen ~> HasDone
    /\ (pc = "call" /\ ~streaming) ~> (pc \in {"returned", "raised"})
    /\ (pc = "call") ~> (HasDone \/ pc \in {"returned", "raised"})

\* a streaming summary whose stream is closed by its done event
C3_Witness ==
    /\ endpoint = "main_summary"
    /\ streaming
    /\ pc = "closed"
    /\ chunks # <<>>
    /\ HasDone

\* C4: the content events of a stream are the non-empty chunks of the
\* provider, in the provider's order, without merge or duplicate, and the
\* done event of a stream that did not fail follows all of them.
C4_ContentInOrder ==
    adapter \in {"helpers", "main", "proxy"} =>
        /\ SelectSeq(events, IsContent) = expected_content(adapter, provider, chunks)
        /\ (pc = "closed" /\ fault = None) =>
               events = expected_content(adapter, provider, chunks)
                           \o << done_event(adapter, provider) >>

\* the two-chunk stream ("Hello", " world") delivered and closed
C4_Witness ==
    /\ endpoint = "chat"
    /\ provider = "glm"
    /\ chunks = << chunk_text("Hello"), chunk_text(" world") >>
    /\ events = << [content |-> "Hello", model |-> "glm"],
                   [content |-> " world", model |-> "glm"],
                   [content |-> "", model |-> "glm", done |-> TRUE] >>

Range(q) == {q[i] : i \in 1..Len(q)}
Pos(q, x) == CHOOSE i \in 1..Len(q) : q[i] = x
Models(errs) == [j \in 1..Len(errs) |-> errs[j].model]

\* the candidate lists as the handlers document them: DeepSeek, then OpenAI,
\* then Qwen (main.py); DeepSeek then Qwen for Chinese, Qwen then DeepSeek
\* otherwise (discuss.py); one model chosen by language (chat.py)
documented_chain ==
    IF endpoint = "main_summary" THEN <<"deepseek", "openai", "qwen">>
    ELSE IF endpoint = "discuss_summary"
    THEN (IF language = "zh" THEN <<"deepseek", "qwen">> ELSE <<"qwen", "deepseek">>)
    ELSE IF endpoint = "chat_summary"
    THEN (IF language = "zh" THEN <<"qwen">> ELSE <<"openai">>)
    ELSE << >>

\* the chain stopped at a candidate whose call succeeded
ChainSucceeded ==
    \/ pc \in {"returned", "tail"}
    \/ pc \in {"gen_start", "connecting", "iterating"}
    \/ pc \in {"erroring", "closed"} /\ adapter # "summary"

\* C5: the candidates of a summary chain are invoked in list order and none
\* is invoked after the first success; when main.py's chain succeeds at a
\* candidate, the result is that candidate's outcome and the failure history
\* holds one entry for each earlier candidate, in order (two entries, for
\* deepseek then openai, when the third candidate qwen succeeds).
C5_FallbackInOrder ==
    endpoint \in SummaryEndpoints =>
        /\ Range(attempts) \subseteq Range(documented_chain)
        /\ \A i, j \in 1..Len(attempts) :
              i < j => Pos(documented_chain, attempts[i]) < Pos(documented_chain, attempts[j])
        /\ ChainSucceeded => Last(attempts) = provider
        /\ (endpoint = "main_summary" /\ pc \in {"returned", "tail"}) =>
              /\ Models(errors) = SubSeq(documented_chain, 1, Pos(documented_chain, provider) - 1)
              /\ pc = "returned" => result[1].value = [summary |-> "answer of " \o provider]
              /\ pc = "tail" => Last(events).content = "answer of " \o provider

\* candidates A and B failed at the provider, C succeeded
C5_Witness ==
    /\ endpoint = "main_summary"
    /\ pc = "returned"
    /\ provider = "qwen"
    /\ attempts = <<"deepseek", "openai", "qwen">>
    /\ Models(errors) = <<"deepseek", "openai">>
    /\ errors[1].status = 500
    /\ errors[2].status = 504

\* C6: when every candidate of main.py's chain failed, the error raised to
\* the caller (and the failure it streams) carries one entry per candidate,
\* in candidate order.
C6_AllFailuresCarried ==
    /\ (endpoint = "main_summary" /\ pc = "raised") =>
           Models(result[1].error.errors) = documented_chain
    /\ (endpoint = "main_summary" /\ fault # None /\ adapter = "summary") =>
           Models(fault[1].errors) = documented_chain

\* C7: in summary mode a failure (a raised error or an error event) reaches
\* the client only when every candidate of the chain was invoked or found
\* without credential.
C7_FailureAfterAllTried ==
    (endpoint \in SummaryEndpoints /\ (pc = "raised" \/ ErrorAt # {})) =>
        \A i \in 1..Len(documented_chain) :
            documented_chain[i] \in Range(attempts) \/ cand > i

\* C8: a failure inside a streaming summary response never escapes the
\* generator: the stream carries the error event, then the done event.
C8_SummaryStreamFailure ==
    (endpoint \in SummaryEndpoints /\ streaming) =>
        /\ pc # "gen_raised"
        /\ fault # None =>
              /\ pc \in {"erroring", "closed"}
              /\ pc = "erroring" => IsError(Last(events))
              /\ pc = "closed" => /\ Len(events) >= 2
                                  /\ IsError(events[Len(events) - 1])
                                  /\ IsDone(Last(events))

\* the summary model of chat.py has no credential: its stream carries the
\* error and is closed
C8_Witness ==
    /\ endpoint = "chat_summary"
    /\ streaming
    /\ key_to_use = NoKey
    /\ fault # None
    /\ pc = "closed"
    /\ Len(events) = 2

\* C9: a get_client call that repeats the arguments of the call before it
\* returns the client that call returned, and constructs nothing.
C9_SecondCallCached ==
    [][ ( /\ lastCall # None
          /\ lastCall' # None
          /\ lastCall[1].outcome = "returned"
          /\ lastCall'[1].outcome = "returned"
          /\ lastCall'[1].provider = lastCall[1].provider
          /\ lastCall'[1].api_key = lastCall[1].api_key )
        => ( lastCall'[1].client = lastCall[1].client /\ created' = created ) ]_vars

\* C10: get_client returns a client whose credential is the one resolved for
\* the call (the argument, else the environment), and the cache entry of the
\* provider is that client.
C10_ReturnsResolvedCredential ==
    (lastCall # None /\ lastCall[1].outcome = "returned") =>
        LET c == lastCall[1]
            wanted == IF c.api_key # NoKey THEN c.api_key ELSE env[c.provider] IN
        /\ c.client[1].api_key = wanted
        /\ c.provider \in DOMAIN _clients
        /\ _clients[c.provider] = c.client[1]

\* a call that found a client with another credential cached for its provider
C10_Witness ==
    /\ lastCall # None
    /\ lastCall[1].outcome = "returned"
    /\ lastCall[1].before # None
    /\ lastCall[1].before[1].api_key # lastCall[1].client[1].api_key
    /\ lastCall[1].client[1].api_key = "user-key-2"

\* C11: under any interleaving of concurrent requests, a request issues its
\* provider call with a client that carries the credential resolved for that
\* request and the URL of its provider, whatever the other requests did to the
\* cache in between; a lookup fails only when no credential is resolvable, and
\* the cache maps every provider to a client of that provider.
C11_OwnCredentialUnderInterleaving ==
    /\ \A r \in 1..Len(requests) :
          LET q == requests[r]
              own == IF q.api_key # NoKey THEN q.api_key ELSE env[q.provider] IN
          /\ q.pc \in {"awaiting", "connecting"} => q.client # None
          /\ q.client # None =>
                 /\ q.client[1].api_key = own
                 /\ q.client[1].base_url = get_api_url(q.provider)
          /\ q.pc \in {"raised", "erroring"} => own = NoKey
    /\ \A p \in DOMAIN _clients : _clients[p].base_url = get_api_url(p)

\* a streaming request was accepted, then another request with another
\* credential replaced the client cached for the same provider, then the
\* stream was consumed
C11_Witness ==
    \E r1, r2, r3 \in 1..Len(requests) :
        /\ requests[r1].provider = requests[r2].provider
        /\ requests[r3].provider = requests[r2].provider
        /\ requests[r1].streaming
        /\ requests[r1].client # None
        /\ requests[r2].client # None
        /\ requests[r3].client # None
        /\ requests[r3].client[1].id <= requests[r1].accepted_at
        /\ requests[r1].accepted_at < requests[r2].client[1].id
        /\ requests[r2].client[1].id < requests[r1].client[1].id
        /\ requests[r1].key_to_use # requests[r2].key_to_use
        /\ _clients[requests[r1].provider] = requests[r1].client[1]

\* the text s contains the text t
Contains(s, t) == \E i \in 1..(Len(s) - Len(t) + 1) : SubSeq(s, i, i + Len(t) - 1) = t

\* the provider a client was built for
provider_of(c) == CHOOSE p \in Providers : get_api_url(p) = c.base_url

\* the credential the handler of the request passes to call_X for provider p
supplied(p) ==
    IF endpoint \in {"main_summary", "chat_summary"} THEN NoKey
    ELSE IF endpoint = "proxy" THEN bearer_token(authorization)
    ELSE headers[p]

\* C12: a provider request is issued with the credential of the request when
\* the request carries one, with the environment credential otherwise, and
\* never without credential; when neither is available no provider request
\* is issued in either mode, and a non-streaming call raises an error whose
\* message says that the API key is not configured.
C12_CredentialPrecedence ==
    /\ \A i \in 1..Len(issued) :
          LET c == issued[i].client
              p == provider_of(c) IN
          /\ c.api_key # NoKey
          /\ c.api_key = IF supplied(p) # NoKey THEN supplied(p) ELSE env[p]
    /\ (endpoint \in DirectEndpoints /\ headers[provider] = NoKey /\ env[provider] = NoKey) =>
          /\ issued = <<>>
          /\ (~streaming /\ pc # "call") =>
                 /\ pc = "raised"
                 /\ call_result # None
                 /\ call_result[1].kind = "raised"
                 /\ Contains(call_result[1].error.msg, "API key not configured")
                 /\ Contains(result[1].error.msg, "API key not configured")

\* a request that carries a credential while the environment has one too,
\* and whose provider request was issued
C12_Witness ==
    /\ endpoint = "chat"
    /\ ~streaming
    /\ headers[provider] = "user-key-1"
    /\ env[provider] = EnvKey
    /\ Len(issued) = 1
    /\ issued[1].client.api_key = "user-key-1"
    /\ pc = "returned"

C14_FailureRaisedWithMessage ==
    cause # None =>
        /\ call_result # None
        /\ call_result[1].kind = "raised"
        /\ Contains(call_result[1].error.msg, cause[1].msg)
        /\ pc # "returned"

\* a non-streaming call whose provider request failed with "401 Unauthorized"
C14_Witness ==
    /\ endpoint = "chat"
    /\ provider = "deepseek"
    /\ ~streaming
    /\ pc = "raised"
    /\ cause # None
    /\ cause[1].msg = "401 Unauthorized"
    /\ Contains(call_result[1].error.msg, "401")

C16_StatusPropagated ==
    (endpoint \in DirectEndpoints /\ ~streaming /\ cause # None
        /\ cause[1].status \in 400..599) =>
        /\ call_result[1].error.status = cause[1].status
        /\ pc = "raised" => result[1].error.status = cause[1].status

\* C17: the response of an endpoint whose non-streaming provider call timed
\* out has status 504 and a try-again message; for any other upstream error
\* it has status 500.
C17_TimeoutDistinct ==
    (endpoint = "main_chat" /\ ~streaming /\ pc = "raised" /\ cause # None) =>
        IF cause[1].kind = "TimeoutError"
        THEN /\ result[1].error.status = 504
             /\ Contains(result[1].error.detail, "Please try again later")
        ELSE result[1].error.status = 500

\* the number of system messages of a conversation
NumSystem(msgs) == Cardinality({i \in 1..Len(msgs) : msgs[i].role = "system"})

StartsWithSystem(msgs) == msgs # <<>> /\ msgs[1].role = "system"

\* C18: for a direct chat call of any provider whose conversation starts with
\* a system message, the conversation sent to the provider has no system
\* message more than the caller's conversation.
C18_PrependIdempotent ==
    (pc = "composed" /\ endpoint \in {"chat", "main_chat"} /\ StartsWithSystem(messages)) =>
        NumSystem(result[1].value) <= NumSystem(messages)

\* C19: for a direct chat call of any provider whose conversation does not
\* start with a system message, the conversation sent to the provider is the
\* system prompt of the provider in the language of the request, followed by
\* the caller's messages unchanged.
C19_PromptFirst ==
    (pc = "composed" /\ endpoint \in {"chat", "main_chat"} /\ ~StartsWithSystem(messages)) =>
        result[1].value = << Msg("system", get_model_prompt(provider, language)) >> \o messages

\* C20: the system message composed for a discuss request quotes the
\* previous response verbatim, as the previous answer, whenever the request
\* carries a non-empty previous_response, and has no previous-response
\* section when the request carries none.
C20_DiscussionChaining ==
    (pc = "composed" /\ endpoint = "discuss") =>
        LET first == result[1].value[1] IN
        /\ first.role = "system"
        /\ previous_response # NoText =>
               /\ Contains(first.content, PreviousMarker(language))
               /\ Contains(first.content, "\"\"\"" \o previous_response \o "\"\"\"")
        /\ previous_response = NoText =>
               ~Contains(first.content, PreviousMarker(language))

\* the turns of the chain whose provider call is in flight
InFlight == {i \in 1..Len(requests) : requests[i].pc = "in_flight"}

C22_DisconnectAbandonsCall ==
    [][ disconnected =>
            /\ chunks' = chunks
            /\ pc' \notin {"connecting", "iterating"} ]_vars

\* the number of positions of s at which t occurs
Occurrences(s, t) ==
    Cardinality({i \in 1..(Len(s) - Len(t) + 1) : SubSeq(s, i, i + Len(t) - 1) = t})

\* the prompt get_summary_prompt composed: the user message of the composed
\* conversation
ComposedPrompt == Last(result[1].value).content

\* the providers whose response the request carries
Present == {responses[i][1] : i \in 1..Len(responses)}

\* C23: the summary prompt composed from a request's responses has one labelled
\* entry for each of the six providers, carrying the provider's response when
\* the request has one and the placeholder otherwise; the placeholder stands
\* exactly once per absent provider and no present response is left out
C23_MissingResponseSubstitution ==
    (pc = "composed" /\ endpoint = "main_summary") =>
        /\ \A p \in Providers :
              Contains(ComposedPrompt,
                       display(p) \o ": "
                           \o dict_get(responses, p, no_response_text(language)) \o "\n")
        /\ Occurrences(ComposedPrompt, no_response_text(language))
               = Cardinality(Providers \ Present)

\* a request with the response of openai only and language "en" is composed
C23_FailingInput ==
    /\ pc = "composed" /\ endpoint = "main_summary" /\ language = "en"
    /\ Present = {"openai"}
    /\ Occurrences(ComposedPrompt, "No response") = 3
    /\ ~Contains(ComposedPrompt, "GLM: ")

\* the language of the placeholder text and of the template, read off the
\* composed prompt
PlaceholderLanguage ==
    IF Contains(ComposedPrompt, "No response") THEN "en"
    ELSE IF Contains(ComposedPrompt, "Wu huiying") THEN "zh" ELSE "none"

TemplateLanguage == IF Contains(ComposedPrompt, "[zh] Question: ") THEN "zh" ELSE "en"

\* C24: whenever the composed summary prompt holds a placeholder, the
\* placeholder is in the language of the template, for every locale tag
C24_PlaceholderInTemplateLanguage ==
    (pc = "composed" /\ endpoint = "main_summary" /\ PlaceholderLanguage # "none") =>
        PlaceholderLanguage = TemplateLanguage

\* a request in "fr" with an absent response is composed: the template is the
\* English one, the placeholder the Chinese one
C24_FailingInput ==
    /\ pc = "composed" /\ endpoint = "main_summary" /\ language = "fr"
    /\ Present = {"openai", "grok", "qwen"}
    /\ TemplateLanguage = "en" /\ PlaceholderLanguage = "zh"

\* a sequence in reverse order
RECURSIVE Reverse(_)
Reverse(q) == IF q = <<>> THEN <<>> ELSE Append(Reverse(Tail(q)), Head(q))

\* C25: the order in which a summary handler tries its candidates depends on
\* the locale alone, and the order for "zh" is the exact reverse of the order
\* for every other locale, over the same set of candidates
C25_LocaleReversesOrder ==
    (endpoint \in SummaryEndpoints /\ attempts # <<>>) =>
        /\ \A i, j \in 1..Len(attempts) :
              i < j => Pos(candidates(endpoint, language), attempts[i])
                          < Pos(candidates(endpoint, language), attempts[j])
        /\ \A other \in Languages \ {"zh"} :
              /\ Range(candidates(endpoint, "zh")) = Range(candidates(endpoint, other))
              /\ candidates(endpoint, "zh") = Reverse(candidates(endpoint, other))

\* main.py's chain tried deepseek first for a request in "zh" and for one in
\* "en" alike
C25_FailingInput ==
    /\ endpoint = "main_summary" /\ language \in {"zh", "en"}
    /\ attempts = <<"deepseek", "openai">>

\* the three shapes of an event of a backend stream
ContentShape(ev) == DOMAIN ev = {"content", "model"}
DoneShape(ev)    == DOMAIN ev = {"content", "model", "done"} /\ ev.content = "" /\ ev.done = TRUE
ErrorShape(ev)   == DOMAIN ev = {"content", "model", "error"} /\ ev.error = TRUE

\* C26: every event of a backend stream is a content event {content, model},
\* a done event {content: "", model, done: true} or an error event
\* {content, model, error: true}; each carries a model and a content field
C26_EventShapes ==
    adapter # "proxy" =>
        \A i \in 1..Len(events) :
            /\ {"content", "model"} \subseteq DOMAIN events[i]
            /\ ContentShape(events[i]) \/ DoneShape(events[i]) \/ ErrorShape(events[i])

\* a stream of main.py's call_X ended with its done event, which has no
\* content field
C26_FailingInput ==
    /\ endpoint = "main_chat" /\ adapter = "main" /\ pc = "closed"
    /\ DOMAIN Last(events) = {"done", "model"}

\* C27: when the handler of a chat, discuss or summary endpoint has caught an
\* exception and produced its error response, the exception has been handed
\* to the error hook (capture_exception) first
C27_CaughtIsReported ==
    (pc = "raised" /\ endpoint # "proxy") =>
        \E i \in 1..Len(reported) : reported[i].hook = "capture_exception"

\* chat_grok answered 500 for a failed provider call with nothing handed to
\* the hook or the log
C27_FailingInput ==
    /\ endpoint = "chat" /\ provider = "grok" /\ pc = "raised"
    /\ cause # None
    /\ reported = <<>>

\* request i waits for its provider: for the connection or the next chunk
WaitsForProvider(i) == requests[i].pc \in {"connecting", "waiting"}

\* C28: while a request waits for its provider (connection or next upstream
\* chunk), every other request can make progress: a new request can be
\* accepted, a request whose generator was not started or has yielded can be
\* resumed, and a request waiting for its own provider can receive its
\* answer, its next chunk or its end; in the backend and in the proxy
C28_WaitsAreSuspensionPoints ==
    \A i \in 1..Len(requests) :
        WaitsForProvider(i) =>
            /\ Len(requests) < MaxRequests => ENABLED TaskAccept
            /\ \A j \in 1..Len(requests) :
                  (j # i /\ requests[j].pc # "closed") =>
                      ENABLED (TaskStart(j) \/ TaskConnected(j) \/ TaskChunk(j)
                                   \/ TaskSent(j) \/ TaskEnd(j))

\* a proxy request waits for its next upstream chunk while a second request,
\* accepted earlier, waits for its generator to be started
C28_FailingInput ==
    /\ adapter = "proxy"
    /\ Len(requests) = 2
    /\ requests[1].pc = "waiting" /\ requests[1].received = 1
    /\ requests[2].pc = "accepted"

\* the HTTP status of the answer of the proxy: the status of the response the
\* handler returned, or 500 for an exception that left the handler
ProxyStatus ==
    IF result[1].kind = "raised" THEN 500
    ELSE IF result[1].value = StreamingResponse THEN 200
    ELSE result[1].value.status_code

\* C30: every POST to a chat-completions endpoint of the proxy is answered
\* with a status among 200, 400, 401 and 422, whatever the provider does
\* afterwards: a failing provider never makes the status a 5xx
C30_ProxyStatusSet ==
    (endpoint = "proxy" /\ result # None) => ProxyStatus \in {200, 400, 401, 422}

\* a bearer token and a JSON body that is an array: body.get raises
C30_FailingInput ==
    /\ endpoint = "proxy" /\ is_bearer(authorization) /\ body.type = "array"
    /\ pc = "raised" /\ ProxyStatus = 500

\* the credentials of the request: header override, bearer token and
\* environment keys
Secrets ==
    ({headers[p] : p \in Providers} \cup {env[p] : p \in Providers}
        \cup (IF is_bearer(authorization) THEN {bearer_token(authorization)} ELSE {}))
        \ {NoKey}

BodyModel == IF body.type = "object" THEN body.model ELSE NoText

\* the answer the validation order of the proxy prescribes: the status and
\* the error text
Prescribed ==
    IF ~is_bearer(authorization) THEN <<401, "Missing or invalid Authorization header.">>
    ELSE IF body.type = "invalid" THEN <<400, "Invalid JSON body.">>
    ELSE IF BodyModel = NoText THEN <<400, "Missing model parameter.">>
    ELSE IF ~body.stream THEN <<400, "Only streaming mode is supported.">>
    ELSE <<200, "">>

\* C31: the proxy checks a request in the order Authorization header (401),
\* JSON body (400), model (400), stream (400, "Only streaming mode is
\* supported"), and issues an upstream request only when every check passed
C31_ValidationOrder ==
    (endpoint = "proxy" /\ result # None) =>
        /\ ProxyStatus = Prescribed[1]
        /\ Prescribed[1] # 200 =>
              /\ result[1].kind = "returned"
              /\ result[1].value.error = Prescribed[2]
              /\ issued = <<>>
              /\ pc = "returned"

\* a bearer token and a JSON body without model, because it is an array: the
\* answer is 500, not 400
C31_FailingInput ==
    /\ endpoint = "proxy" /\ is_bearer(authorization) /\ body.type = "array"
    /\ result # None /\ result[1].kind = "raised" /\ issued = <<>>


(***************************************************************************)
(* Language of a chat call                                                 *)
(***************************************************************************)

\* the content of the most recent user message of the request, NoText when
\* the conversation has none
LastUserText ==
    LET at == {i \in 1..Len(messages) : messages[i].role = "user"} IN
    IF at = {} THEN NoText
    ELSE messages[CHOOSE i \in at : \A j \in at : j <= i].content

\* the characters of the texts explored that lie in U+4E00..U+9FFF
Counted == {"#", "@"}

\* the number of counted characters of a text
cjk_count(text) == Cardinality({i \in 1..Len(text) : SubSeq(text, i, i) \in Counted})

\* C32: a chat handler passes a request language other than "en" on as it is;
\* for "en" it passes the language detected from the most recent user
\* message alone, and "en" when the conversation has no user message
C32_ChatLanguage ==
    (endpoint = "chat" /\ pc = "composed") =>
        IF language # "en" THEN lang_arg = language
        ELSE IF LastUserText = NoText THEN lang_arg = "en"
        ELSE lang_arg = detect_language(LastUserText)

\* a request in "en" whose last user message is English after an earlier
\* Chinese one and a Chinese system message elsewhere
C32_Witness ==
    /\ endpoint = "chat" /\ pc = "composed" /\ language = "en"
    /\ messages = << Msg("user", "#@"), Msg("assistant", "Hello"), Msg("user", "More") >>
    /\ lang_arg = "en"

Formatted == result[1].value

\* C34: format_discuss_messages returns one new system message followed by
\* the messages it was given, unchanged and in order, and leaves the list it
\* was given as it was; the result is one longer than the input, also when
\* the input starts with a system message
C34_DiscussFrame ==
    [][(endpoint = "discuss" /\ pc = "compose" /\ pc' = "composed") =>
          /\ messages' = messages
          /\ Len(Formatted') = Len(messages) + 1
          /\ Formatted'[1].role = "system"
          /\ Formatted'[1].content =
                 format_discuss_messages(<<>>, display(provider), previous_model,
                                         previous_response, language)[1].content
          /\ \A i \in 1..Len(messages) : Formatted'[i + 1] = messages[i]]_vars

\* a conversation that starts with a system message has been formatted
C34_Witness ==
    /\ endpoint = "discuss" /\ pc = "composed"
    /\ messages = << Msg("system", "Be brief"), Msg("user", "Hi") >>
    /\ Len(Formatted) = 3
    /\ Formatted[2] = Msg("system", "Be brief")



(***************************************************************************)
(* Rejection of an unknown environment                                     *)
(***************************************************************************)

\* the status of the response of an environment endpoint
EnvStatus(r) == IF r[1].kind = "raised" THEN r[1].error.status ELSE 200

\* C35: a switch to a name outside dev, test and prd is answered with 400
\* and leaves THINKING_ENV as it was; a switch to one of the three is
\* answered with 200 and makes it the current environment
C35_SwitchEnvironment ==
    [][\A e \in EnvParams : change_environment(e) =>
          IF e \in {"dev", "test", "prd"}
          THEN EnvStatus(result') = 200 /\ get_environment(thinking_env') = e
          ELSE EnvStatus(result') = 400 /\ thinking_env' = thinking_env]_vars

\* the same without the status of the rejection: an unknown name leaves
\* THINKING_ENV as it was, a known one becomes current
C35_EnvironmentEffect ==
    [][\A e \in EnvParams : change_environment(e) =>
          IF e \in {"dev", "test", "prd"}
          THEN EnvStatus(result') = 200 /\ get_environment(thinking_env') = e
          ELSE EnvStatus(result') >= 400 /\ thinking_env' = thinking_env]_vars

\* POST /api/switch-environment/staging: the answer is a 500 that wraps the
\* 400 raised for the name
C35_FailingInput ==
    /\ endpoint = "switch-environment"
    /\ result # None /\ result[1].kind = "raised"
    /\ result[1].error.status = 500
    /\ result[1].error.detail = "Failed to switch environment: "
                                   \o invalid_environment("staging").msg



(***************************************************************************)
(* The six adapters of model_helpers.py against each other                 *)
(***************************************************************************)

\* the events of a stream with the model field set to p
Labelled(evs, p) == [i \in 1..Len(evs) |-> [evs[i] EXCEPT !.model = p]]

\* the content events call_openai emits for the chunks cs
RECURSIVE openai_content(_)
openai_content(cs) ==
    IF cs = <<>> THEN <<>>
    ELSE chunk_events("helpers", "openai", Head(cs)) \o openai_content(Tail(cs))

\* the events call_openai has emitted at the position of the request, for the
\* chunks and the failure of the request
openai_events ==
    openai_content(chunks)
        \o (IF fault # None THEN << helpers_error("openai", fault[1]) >> ELSE <<>>)
        \o (IF pc = "closed" THEN << helpers_done("openai") >> ELSE <<>>)

\* the outcome of the non-streaming call_openai for the outcome of the
\* provider request
openai_result ==
    IF call_raises("helpers", streaming, key_to_use) THEN Raised(call_error("helpers", "openai"))
    ELSE IF cause # None THEN Raised(request_error("helpers", "openai", cause[1]))
    ELSE Returned(call_value("helpers", "openai", call_result[1].value.content))

Carrying == {chunk_text(t) : t \in Texts \ {""}}

\* the number of elements of a sequence that satisfy Test
Count(seq, Test(_)) == Cardinality({i \in 1..Len(seq) : Test(seq[i])})

\* C37: in a stream of a model_helpers adapter an event has empty content
\* exactly when it is the done event; a chunk without choices, without delta
\* or with empty or absent content produces no event, so that there are as
\* many content events as chunks with non-empty content
C37_EmptyContentIsDone ==
    adapter = "helpers" =>
        /\ \A i \in 1..Len(events) : events[i].content = "" <=> IsDone(events[i])
        /\ Count(events, IsContent) = Count(chunks, LAMBDA c : c \in Carrying)
        /\ \A c \in Chunks \ Carrying : chunk_events("helpers", provider, c) = <<>>

\* a closed stream of call_qwen that was sent a chunk without choices, one
\* with the empty text and one with a text
C37_Witness ==
    /\ adapter = "helpers" /\ provider = "qwen"
    /\ chunks = << chunk_nochoices, chunk_text(""), chunk_text("Hello") >>
    /\ pc = "closed"
    /\ Len(events) = 2
    /\ events[2].content = "" /\ IsDone(events[2])



(***************************************************************************)
(* Shape of the client cache                                               *)
(***************************************************************************)

\* C38: after any sequence of get_client calls the cache holds at most one
\* client per provider, so at most six, under the provider's name, and the
\* entry of a provider is the client most recently returned for it: a call
\* that returns a client leaves that client under its provider and every
\* other entry as it was, and a call that raises leaves the cache as it was
C38_CacheShape ==
    [][ /\ DOMAIN _clients' \subseteq Providers
        /\ Cardinality(DOMAIN _clients') <= 6
        /\ lastCall' # None
        /\ LET c == lastCall'[1] IN
           IF c.outcome = "returned"
           THEN /\ DOMAIN _clients' = DOMAIN _clients \cup {c.provider}
                /\ _clients'[c.provider] = c.client[1]
                /\ \A q \in DOMAIN _clients \ {c.provider} : _clients'[q] = _clients[q]
           ELSE _clients' = _clients ]_vars

\* the client of a provider has been replaced while another provider keeps
\* its own
C38_Witness ==
    /\ lastCall # None
    /\ lastCall[1].outcome = "returned"
    /\ lastCall[1].before # None
    /\ lastCall[1].before[1] # lastCall[1].client[1]
    /\ Cardinality(DOMAIN _clients) = 2


=============================================================================
